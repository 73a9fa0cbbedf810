------------------------------ MODULE VMPower ------------------------------
(***************************************************************************)
(* The power state of one pod VM, the only one of its pod.  Its owner       *)
(* starts, stops and restarts it by jobs and works in it through a console; *)
(* the guest shuts down, and vCenter's operators act, on their own.  The    *)
(* idle evaluator suspends a running VM that has not been used for the      *)
(* timeout, from what it listed and sampled at the start of its pass, and   *)
(* the expiration ticker has a pod destroyed whose VMs were suspended for   *)
(* too long.  The row's status and the VM's power state are never changed   *)
(* together.                                                                *)
(*                                                                         *)
(* Left out: dry-run passes, which change nothing but the activity clock;   *)
(* a second evaluator (WorkLease); a second power job beside the first,     *)
(* which the code allows; the vm_suspend job, which nothing creates; and    *)
(* rows without a clock or a reference, which a pass ignores.               *)
(***************************************************************************)
EXTENDS Naturals

CONSTANT MaxIdleFaults \* bound: failed passes and jobs that are run again

ASSUME MaxIdleFaultsNat == MaxIdleFaults \in Nat

VARIABLES
    vmStatus,     \* pod_vms.status
    suspendedAt,  \* pod_vms.suspended_at: none, recent, or past the retention
    lastActivity, \* pod_vms.last_activity_at: fresh, or older than the timeout
    podState,     \* active, doomed (a destroy job waits), or destroyed
    guest,        \* vCenter: power, whether VMware Tools runs, the load sampled
    console,      \* a console session is open
    testing,      \* an assessment run targets the VM
    powerJob,     \* the power job of the VM, if any
    idlePass,     \* the evaluator's pass
    idleFaults

users == <<console, testing>>
vmRow == <<vmStatus, suspendedAt, lastActivity>>
powerVars == <<vmRow, podState, guest, users, powerJob, idlePass, idleFaults>>

\* Without VMware Tools nothing can be said of the load.
Guest(p) == [power |-> p, tools |-> FALSE, load |-> "unknown"]
WithTools(l) == [power |-> "on", tools |-> TRUE, load |-> l]
NoJob == [action |-> "none", at |-> "none"]
NoPass == [at |-> "idle", clock |-> "none", power |-> "none", tools |-> FALSE]

PowerTypeOK ==
    /\ vmStatus \in {"running", "stopped", "suspended", "deleted"}
    /\ suspendedAt \in {"none", "recent", "past"} /\ lastActivity \in {"fresh", "old"}
    /\ podState \in {"active", "doomed", "destroyed"}
    /\ guest \in [power : {"on", "off", "suspended", "gone"}, tools : BOOLEAN,
                  load : {"idle", "busy", "unknown"}]
    /\ {console, testing} \subseteq BOOLEAN
    /\ powerJob \in [action : {"none", "start", "stop", "restart", "reset"},
                     at : {"none", "call", "write", "clear"}]
    /\ idlePass.at \in {"idle", "states", "perf", "sync", "syncWrite",
                        "touch", "job", "run", "eligible", "suspend", "record"}
    /\ idleFaults \in 0 .. MaxIdleFaults

PowerInit ==
    /\ vmStatus = "running" /\ suspendedAt = "none" /\ lastActivity = "fresh"
    /\ podState = "active" /\ guest = Guest("on") /\ console = FALSE /\ testing \in BOOLEAN
    /\ powerJob = NoJob /\ idlePass = NoPass /\ idleFaults = 0

-----------------------------------------------------------------------------
IdleFault == idleFaults < MaxIdleFaults /\ idleFaults' = idleFaults + 1
IdleFine == UNCHANGED idleFaults

\* The guest's own doing, and vCenter's: Tools and load change, it shuts
\* down, it is suspended or deleted by hand.
GuestChanges ==
    /\ \/ guest.power = "on"
          /\ \/ \E l \in {"idle", "busy", "unknown"} : guest' = WithTools(l)
             \/ \E p \in {"on", "off", "suspended"} : guest' = Guest(p)
       \/ guest.power # "gone" /\ guest' = Guest("gone")
    /\ guest' # guest /\ IdleFine /\ UNCHANGED <<vmRow, podState, users, powerJob, idlePass>>

\* TouchVMConsoleAt on opening, on every heartbeat and on closing.
Console ==
    /\ guest.power = "on" \/ console
    /\ console' = ~console /\ lastActivity' = "fresh"
    /\ IdleFine /\ UNCHANGED <<vmStatus, suspendedAt, podState, guest, testing, powerJob, idlePass>>

\* An assessment run of the VM starts or ends (TestRun).
Assessment ==
    /\ podState # "destroyed" /\ testing' = ~testing
    /\ IdleFine /\ UNCHANGED <<vmRow, podState, guest, console, powerJob, idlePass>>

\* Time.  Heartbeats keep the clock fresh.
ClockRuns ==
    /\ ~console /\ lastActivity = "fresh" /\ lastActivity' = "old"
    /\ IdleFine /\ UNCHANGED <<vmStatus, suspendedAt, podState, guest, users, powerJob, idlePass>>

RetentionRuns ==
    /\ suspendedAt = "recent" /\ suspendedAt' = "past"
    /\ IdleFine /\ UNCHANGED <<vmStatus, lastActivity, podState, guest, users, powerJob, idlePass>>

-----------------------------------------------------------------------------
\* Power jobs.  Bound: one at a time.

VMPowerAction(a) ==
    /\ podState = "active" /\ vmStatus # "deleted" /\ powerJob = NoJob
    /\ powerJob' = [action |-> a, at |-> "call"]
    /\ IdleFine /\ UNCHANGED <<vmRow, podState, guest, users, idlePass>>

\* vCenter's part: the power states in which a call succeeds, and what it
\* leaves.  A VM that is gone can only be stopped.
Accepts(a) == CASE a = "start" -> {"on", "off", "suspended"}
                [] a = "stop" -> {"on", "suspended", "gone"}
                [] a = "reset" -> {"on"}
                [] a = "restart" -> IF guest.tools THEN {"on"} ELSE {}
Called(a) == CASE guest.power = "gone" -> guest
               [] a = "stop" -> Guest("off")
               [] a = "start" /\ guest.power = "on" -> guest
               [] OTHER -> Guest("on")

PowerVM ==
    /\ powerJob.at = "call"
    /\ IF guest.power \in Accepts(powerJob.action)
       THEN guest' = Called(powerJob.action) /\ powerJob' = [powerJob EXCEPT !.at = "write"]
       ELSE powerJob' = NoJob /\ UNCHANGED guest
    /\ IdleFine /\ UNCHANGED <<vmRow, podState, users, idlePass>>

\* UpdatePodVMStatus, whose error is ignored, like that of ClearVMSuspendedAt.
PowerVMWrite ==
    /\ powerJob.at = "write"
    /\ vmStatus' = IF powerJob.action = "stop" THEN "stopped" ELSE "running"
    /\ powerJob' = IF powerJob.action = "start" THEN [powerJob EXCEPT !.at = "clear"] ELSE NoJob
    /\ IdleFine /\ UNCHANGED <<suspendedAt, lastActivity, podState, guest, users, idlePass>>

ClearVMSuspendedAt ==
    /\ powerJob.at = "clear" /\ suspendedAt' = "none" /\ powerJob' = NoJob
    /\ IdleFine /\ UNCHANGED <<vmStatus, lastActivity, podState, guest, users, idlePass>>

\* A call fails, with or without its effect, or the worker dies: the job is
\* run again, fails, or goes on without the write.
PowerVMFails ==
    /\ powerJob # NoJob /\ IdleFault
    /\ powerJob' \in {NoJob, [powerJob EXCEPT !.at = "call"]}
    /\ \/ UNCHANGED guest
       \/ powerJob.at = "call" /\ guest.power \in Accepts(powerJob.action)
          /\ guest' = Called(powerJob.action)
    /\ UNCHANGED <<vmRow, podState, users, idlePass>>

-----------------------------------------------------------------------------
\* EvaluateIdleVMs, for this VM.

PassTo(s) == idlePass' = [idlePass EXCEPT !.at = s]
EndPass == idlePass' = NoPass
seen == <<podState, guest, users, powerJob>>

Candidate == vmStatus = "running" /\ podState # "destroyed"

ListRunningPodVMsForIdleEval ==
    /\ idlePass = NoPass /\ Candidate
    /\ idlePass' = [NoPass EXCEPT !.at = "states", !.clock = lastActivity]
    /\ IdleFine /\ UNCHANGED <<vmRow, seen>>

\* A VM that vCenter does not return is left alone; one that is not on has
\* its row synced.
\* Mutant: the power state is not looked at.
NeverSynced == {}
syncedVMStatus == {"off", "suspended"}

QueryVMIdleStateBulk ==
    /\ idlePass.at = "states"
    /\ IF guest.power = "gone" THEN EndPass
       ELSE idlePass' = [idlePass EXCEPT !.at = IF guest.power \in syncedVMStatus THEN "sync" ELSE "perf",
                                         !.power = guest.power, !.tools = guest.tools]
    /\ IdleFine /\ UNCHANGED <<vmRow, seen>>

Sampled == IF idlePass.tools THEN guest.load ELSE "idle"

\* The sample counts while Tools runs: none at all is no sign of idleness, and
\* load restarts the clock.  Then the clock decides.
SamplePodVMPerf ==
    /\ idlePass.at = "perf"
    /\ CASE Sampled = "unknown" -> EndPass
         [] Sampled = "busy" -> PassTo("touch")
         [] Sampled = "idle" -> IF idlePass.clock = "old" THEN PassTo("job") ELSE EndPass
    /\ IdleFine /\ UNCHANGED <<vmRow, seen>>

TouchVMActivityAt ==
    /\ idlePass.at = "touch" /\ lastActivity' = "fresh" /\ EndPass
    /\ IdleFine /\ UNCHANGED <<vmStatus, suspendedAt, seen>>

\* The guards, each a query of its own; the pass ends at the first refusal.
Check(s, ok, next) ==
    /\ idlePass.at = s /\ IF ok THEN PassTo(next) ELSE EndPass
    /\ IdleFine /\ UNCHANGED <<vmRow, seen>>

HasActiveJobForVM == Check("job", powerJob = NoJob, "run")
HasInFlightRunForVM == Check("run", ~testing, "eligible")
IdleSuspendCandidateStillEligible == Check("eligible", Candidate, "suspend")

SuspendVM ==
    /\ idlePass.at = "suspend"
    /\ IF guest.power \in {"on", "suspended"} THEN guest' = Guest("suspended") /\ PassTo("record")
       ELSE EndPass /\ UNCHANGED guest
    /\ IdleFine /\ UNCHANGED <<vmRow, podState, users, powerJob>>

SetVMSuspended ==
    /\ idlePass.at = "record" /\ EndPass
    /\ vmStatus' = "suspended" /\ suspendedAt' = "recent"
    /\ IdleFine /\ UNCHANGED <<lastActivity, seen>>

\* syncPowerState: from running only, and without suspended_at.
SyncCheck == Check("sync", powerJob = NoJob, "syncWrite")
UpdatePodVMStatusFrom ==
    /\ idlePass.at = "syncWrite" /\ EndPass
    /\ vmStatus' = IF vmStatus # "running" THEN vmStatus
                   ELSE IF idlePass.power = "off" THEN "stopped" ELSE "suspended"
    /\ IdleFine /\ UNCHANGED <<suspendedAt, lastActivity, seen>>

\* A query or a call fails, with or without its effect, or the evaluator dies.
PassFails ==
    /\ idlePass # NoPass /\ IdleFault /\ EndPass
    /\ \/ UNCHANGED guest
       \/ idlePass.at = "suspend" /\ guest.power = "on" /\ guest' = Guest("suspended")
    /\ UNCHANGED <<vmRow, podState, users, powerJob>>

-----------------------------------------------------------------------------
\* ExpireStale: what ListSuspendedPodsPastRetention found is checked again, with
\* the jobs of the pod, under the pod's lock.
PodVMsAllSuspendedPastRetention == vmStatus = "suspended" /\ suspendedAt = "past"
CreateSuspendedPodDestroyJob ==
    /\ podState = "active" /\ PodVMsAllSuspendedPastRetention /\ powerJob = NoJob
    /\ podState' = "doomed"
    /\ IdleFine /\ UNCHANGED <<vmRow, guest, users, powerJob, idlePass>>

\* DestroyPod (PodLifecycle), which checks once more: a VM that is not suspended
\* any more would make it a no-op.  It still is, as no VM job was admitted since.
DestroyDoomedPod ==
    /\ podState = "doomed" /\ PodVMsAllSuspendedPastRetention /\ podState' = "destroyed"
    /\ vmStatus' = "deleted" /\ guest' = Guest("gone") /\ console' = FALSE
    /\ IdleFine /\ UNCHANGED <<suspendedAt, lastActivity, testing, powerJob, idlePass>>

-----------------------------------------------------------------------------
PowerJobStep == PowerVM \/ PowerVMWrite \/ ClearVMSuspendedAt

EvaluateIdleVMs ==
    \/ ListRunningPodVMsForIdleEval \/ QueryVMIdleStateBulk \/ SamplePodVMPerf
    \/ TouchVMActivityAt \/ HasActiveJobForVM \/ HasInFlightRunForVM
    \/ IdleSuspendCandidateStillEligible \/ SuspendVM \/ SetVMSuspended
    \/ SyncCheck \/ UpdatePodVMStatusFrom

PowerNext ==
    \/ GuestChanges \/ Console \/ Assessment \/ ClockRuns \/ RetentionRuns
    \/ \E a \in {"start", "stop", "restart", "reset"} : VMPowerAction(a)
    \/ PowerJobStep \/ PowerVMFails \/ EvaluateIdleVMs \/ PassFails
    \/ CreateSuspendedPodDestroyJob \/ DestroyDoomedPod

-----------------------------------------------------------------------------
(* Properties *)

\* Nobody uses the VM: no console, no assessment, no job, and no load where
\* VMware Tools runs.
Unused(tools) ==
    /\ guest.power # "gone" /\ ~console /\ ~testing /\ powerJob = NoJob
    /\ guest.power = "on" => guest.tools = tools /\ (tools => guest.load = "idle")

\* A VM that nobody uses does not run for ever, nor does its row say so: it
\* ends as suspended or stopped, with Tools and without, also when the guest
\* shut itself down or the answer to a suspension was lost.
IdleIsParked ==
    \A tools \in BOOLEAN :
        []<>~(vmStatus = "running" /\ podState = "active" /\ Unused(tools))

\* "a student reading docs with the console open (low CPU, fresh heartbeat)
\* must not be suspended either" (idle_eval.go).
ConsoleSpares == [][SuspendVM /\ guest.power = "on" => ~console]_powerVars

\* "suspending a VM mid-job would leave the job in a permanently broken
\* state" (HasActiveJobForVM).
JobSpares == [][SuspendVM /\ guest.power = "on" => powerJob = NoJob]_powerVars

\* Retention destroys a lab that is suspended, never one whose VM runs.
RetentionSpares == [][CreateSuspendedPodDestroyJob => guest.power # "on"]_powerVars
=============================================================================
