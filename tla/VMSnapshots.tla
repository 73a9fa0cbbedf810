---------------------------- MODULE VMSnapshots ----------------------------
(***************************************************************************)
(* The snapshots of one pod VM: its initial one and those its owner takes.  *)
(* A snapshot is an object in vCenter and a row in vm_snapshots, and no     *)
(* step changes both.  Jobs take, delete and revert to snapshots, on any    *)
(* worker and side by side (nothing serialises the jobs of one VM); a job   *)
(* whose worker dies, or loses its lease and goes on, is run again from     *)
(* its start; and a sweep removes what replaced snapshots left behind.      *)
(*                                                                         *)
(* Left out: the pod's states, which gate every job (PodLifecycle), the     *)
(* placement check of a job, which fails like any other call, a VM whose    *)
(* initial snapshot could not be taken, and the address a revert clears.    *)
(***************************************************************************)
EXTENDS Naturals

CONSTANTS
    SnapJobs,     \* jobs of the VM
    SnapWorkers,  \* executions that can be under way at a time
    MaxSnapFaults \* bound: failed calls, crashes, lost leases

ASSUME SnapJobsNumbered == SnapJobs \subseteq Nat
ASSUME MaxSnapFaultsNat == MaxSnapFaults \in Nat
ASSUME SweepIsNoWorker == "sweep" \notin SnapWorkers

VARIABLES
    snapRows,   \* vm_snapshots of the VM: reference and created_at; 0 is the initial one
    inserted,   \* rows inserted so far: the created_at of the last one
    snapsInVC,  \* the VM's snapshots in vCenter
    taken,      \* snapshots taken so far: the last reference handed out
    snapPower,  \* pod_vms.status as the owner's power jobs leave it
    snapJobs, snapRuns,
    snapFaults,
    newest,     \* history: the user snapshot recorded last, 0 if none
    unwanted    \* history: snapshots whose deletion the owner asked for

snapVars == <<snapRows, inserted, snapsInVC, taken, snapPower, snapJobs, snapRuns, snapFaults, newest, unwanted>>

Removers == SnapWorkers \cup {"sweep"}
NoSnapJob == [status |-> "absent", type |-> "none", snap |-> 0, owner |-> "none"]
NoRun == [at |-> "idle", job |-> 0, type |-> "none", snap |-> 0, todo |-> {}]

Row(s, at) == [snap |-> s, at |-> at]
RowsOf(s) == {r \in snapRows : r.snap = s}
Recorded == {r.snap : r \in snapRows}
UserRows == {r \in snapRows : r.snap # 0}

SnapRowSet == [snap : Nat, at : Nat]
SnapJobRows == [status : {"absent", "pending", "active", "ended"},
                type : {"none", "snapshot", "delete", "revert"}, snap : Nat,
                owner : SnapWorkers \cup {"none"}]
SnapRunRows == [at : {"idle", "list", "create", "record", "remove", "unrecord"},
                job : SnapJobs \cup {0}, type : {"none", "snapshot", "delete", "revert"},
                snap : Nat,                \* of the payload, later the one that was taken
                todo : SUBSET SnapRowSet]  \* the rows, as they were read, that are to go

\* The types of the state.
SnapTypeOK ==
    /\ snapRows \subseteq SnapRowSet /\ inserted \in Nat
    /\ taken \in Nat /\ snapsInVC \subseteq Nat
    /\ snapPower \in {"running", "stopped"}
    /\ snapJobs \in [SnapJobs -> SnapJobRows] /\ snapRuns \in [Removers -> SnapRunRows]
    /\ snapFaults \in 0 .. MaxSnapFaults
    /\ newest \in Nat /\ unwanted \subseteq Nat

SnapInit ==
    /\ snapRows = {Row(0, 0)} /\ inserted = 0 /\ snapsInVC = {0} /\ taken = 0 /\ snapPower = "running"
    /\ snapJobs = [j \in SnapJobs |-> NoSnapJob]
    /\ snapRuns = [w \in Removers |-> NoRun]
    /\ snapFaults = 0 /\ newest = 0 /\ unwanted = {}

-----------------------------------------------------------------------------
SnapFault == snapFaults < MaxSnapFaults /\ snapFaults' = snapFaults + 1
SnapFine == UNCHANGED snapFaults
stored == <<snapRows, inserted, snapsInVC, taken, newest>>

RunTo(w, s) == snapRuns' = [snapRuns EXCEPT ![w].at = s]
EndRun(w) == snapRuns' = [snapRuns EXCEPT ![w] = NoRun]

\* The owner's requests.  Each is checked against the rows as they are, and
\* becomes a job (CreateVMJob).
CreateSnapJob(type, s) ==
    \E j \in SnapJobs :
        /\ snapJobs[j].status = "absent"
        /\ \A i \in SnapJobs : i < j => snapJobs[i].status # "absent"
        /\ snapJobs' = [snapJobs EXCEPT ![j] =
                          [NoSnapJob EXCEPT !.status = "pending", !.type = type, !.snap = s]]

RequestSnapshot ==
    /\ CreateSnapJob("snapshot", 0)
    /\ SnapFine /\ UNCHANGED <<stored, snapPower, snapRuns, unwanted>>

RequestDelete(s) ==
    /\ s \in Recorded \ {0} /\ CreateSnapJob("delete", s)
    /\ unwanted' = unwanted \cup {s}
    /\ SnapFine /\ UNCHANGED <<stored, snapPower, snapRuns>>

RequestRevert(s) ==
    /\ snapPower = "stopped" /\ s \in Recorded /\ CreateSnapJob("revert", s)
    /\ SnapFine /\ UNCHANGED <<stored, snapPower, snapRuns, unwanted>>

\* The owner starts and stops the VM (VMPower).
SwitchPower ==
    /\ snapPower' = IF snapPower = "running" THEN "stopped" ELSE "running"
    /\ SnapFine /\ UNCHANGED <<stored, snapJobs, snapRuns, unwanted>>

-----------------------------------------------------------------------------
\* A job's execution.  It works on the payload it claimed.

ClaimSnapJob(w, j) ==
    /\ snapRuns[w] = NoRun /\ snapJobs[j].status = "pending"
    /\ snapJobs' = [snapJobs EXCEPT ![j].status = "active", ![j].owner = w]
    /\ snapRuns' = [snapRuns EXCEPT ![w] =
                      [NoRun EXCEPT !.at = "list", !.job = j, !.type = snapJobs[j].type,
                                    !.snap = snapJobs[j].snap]]
    /\ SnapFine /\ UNCHANGED <<stored, snapPower, unwanted>>

ClaimAnySnapJob(w) == \E j \in SnapJobs : ClaimSnapJob(w, j)

\* The job is completed or failed, if the execution still owns it.  (A retry
\* is an execution that ends before its next call: SnapCrash.)
Settle(w) ==
    LET j == snapRuns[w].job
    IN  /\ EndRun(w)
        /\ snapJobs' = IF snapJobs[j].owner # w THEN snapJobs
                       ELSE [snapJobs EXCEPT ![j] = [NoSnapJob EXCEPT !.status = "ended"]]

\* ListVMSnapshots, before anything is taken, or GetVMSnapshot: a job whose
\* snapshot has no row by now fails.

SnapshotVM(w) ==
    /\ snapRuns[w].at = "list" /\ snapRuns[w].type = "snapshot"
    /\ snapRuns' = [snapRuns EXCEPT ![w].at = "create", ![w].todo = UserRows]
    /\ SnapFine /\ UNCHANGED <<stored, snapPower, snapJobs, unwanted>>

DeleteSnapshot(w) ==
    /\ snapRuns[w].at = "list" /\ snapRuns[w].type = "delete"
    /\ \/ /\ snapRuns[w].snap \in Recorded
          /\ snapRuns' = [snapRuns EXCEPT ![w].at = "remove", ![w].todo = RowsOf(snapRuns[w].snap)]
          /\ UNCHANGED snapJobs
       \/ snapRuns[w].snap \notin Recorded /\ Settle(w)
    /\ SnapFine /\ UNCHANGED <<stored, snapPower, unwanted>>

\* RevertToSnapshot: vCenter refuses a snapshot it no longer has.
RevertVM(w) ==
    /\ snapRuns[w].at = "list" /\ snapRuns[w].type = "revert" /\ Settle(w)
    /\ SnapFine /\ UNCHANGED <<stored, snapPower, unwanted>>

CreateVMSnapshot(w) ==
    /\ snapRuns[w].at = "create"
    /\ taken' = taken + 1 /\ snapsInVC' = snapsInVC \cup {taken + 1}
    /\ snapRuns' = [snapRuns EXCEPT ![w].at = "record", ![w].snap = taken + 1]
    /\ SnapFine /\ UNCHANGED <<snapRows, inserted, snapPower, snapJobs, newest, unwanted>>

\* created_at is the time of the insertion.
InsertRow(s) ==
    snapRows' = snapRows \cup {Row(s, inserted + 1)} /\ inserted' = inserted + 1 /\ newest' = s

RecordVMSnapshot(w) ==
    /\ snapRuns[w].at = "record" /\ InsertRow(snapRuns[w].snap) /\ RunTo(w, "remove")
    /\ SnapFine /\ UNCHANGED <<snapsInVC, taken, snapPower, snapJobs, unwanted>>

SnapshotDone(w) ==
    /\ w \in SnapWorkers /\ snapRuns[w].at = "remove" /\ snapRuns[w].todo = {} /\ Settle(w)
    /\ SnapFine /\ UNCHANGED <<stored, snapPower, unwanted>>

-----------------------------------------------------------------------------
\* ReconcileExcessSnapshots: the sweep lists every user snapshot but the
\* newest, and takes them one by one.

\* Mutant: the oldest snapshot is the one that is kept.
ExcessButOldest == {r \in UserRows : \E q \in UserRows : q.at < r.at}
ListExcessUserSnapshots == {r \in UserRows : \E q \in UserRows : r.at < q.at}

StartSweep ==
    /\ snapRuns["sweep"].at = "idle" /\ ListExcessUserSnapshots # {}
    /\ snapRuns' = [snapRuns EXCEPT !["sweep"] =
                      [NoRun EXCEPT !.at = "remove", !.todo = ListExcessUserSnapshots]]
    /\ SnapFine /\ UNCHANGED <<stored, snapPower, snapJobs, unwanted>>

EndSweep ==
    /\ snapRuns["sweep"].at = "remove" /\ snapRuns["sweep"].todo = {} /\ EndRun("sweep")
    /\ SnapFine /\ UNCHANGED <<stored, snapPower, snapJobs, unwanted>>

-----------------------------------------------------------------------------
\* Removal, by a job or by the sweep: first vCenter's snapshot, then the row.

\* The lists are ordered by created_at.
Oldest(w) == {r \in snapRuns[w].todo : \A q \in snapRuns[w].todo : r.at <= q.at}
Onward(w, r) == snapRuns' = [snapRuns EXCEPT ![w].at = "remove", ![w].todo = @ \ {r}]

\* An error ends a job; the sweep goes on to the next snapshot.
SweepStops(w, r) == IF w = "sweep" THEN EndRun(w) /\ UNCHANGED snapJobs ELSE Settle(w)  \* mutant
GiveUp(w, r) == IF w = "sweep" THEN Onward(w, r) /\ UNCHANGED snapJobs ELSE Settle(w)

RemoveVMSnapshot(w) ==
    /\ snapRuns[w].at = "remove"
    /\ \E r \in Oldest(w) :
          \/ r.snap \in snapsInVC /\ snapsInVC' = snapsInVC \ {r.snap}
             /\ RunTo(w, "unrecord") /\ UNCHANGED snapJobs
          \/ r.snap \notin snapsInVC /\ GiveUp(w, r) /\ UNCHANGED snapsInVC
    /\ SnapFine /\ UNCHANGED <<snapRows, inserted, taken, snapPower, newest, unwanted>>

DeleteRow(s) == snapRows' = snapRows \ RowsOf(s)

DeleteVMSnapshot(w) ==
    /\ snapRuns[w].at = "unrecord"
    /\ \E r \in Oldest(w) : DeleteRow(r.snap) /\ Onward(w, r)
    /\ SnapFine /\ UNCHANGED <<inserted, snapsInVC, taken, snapPower, snapJobs, newest, unwanted>>

-----------------------------------------------------------------------------
\* Faults: a call fails, with or without its effect.

TakeFails(w) ==
    /\ snapRuns[w].at = "create" /\ SnapFault /\ Settle(w)
    /\ \/ UNCHANGED <<taken, snapsInVC>>
       \/ taken' = taken + 1 /\ snapsInVC' = snapsInVC \cup {taken + 1}
    /\ UNCHANGED <<snapRows, inserted, snapPower, newest, unwanted>>

RecordFails(w) ==
    /\ snapRuns[w].at = "record" /\ SnapFault /\ Settle(w)
    /\ UNCHANGED <<snapRows, inserted, newest>> \/ InsertRow(snapRuns[w].snap)
    /\ UNCHANGED <<snapsInVC, taken, snapPower, unwanted>>

RemoveFails(w) ==
    /\ snapRuns[w].at = "remove" /\ SnapFault
    /\ \E r \in Oldest(w) : GiveUp(w, r) /\ snapsInVC' \in {snapsInVC, snapsInVC \ {r.snap}}
    /\ UNCHANGED <<snapRows, inserted, taken, snapPower, newest, unwanted>>

DeleteFails(w) ==
    /\ snapRuns[w].at = "unrecord" /\ SnapFault
    /\ \E r \in Oldest(w) : GiveUp(w, r) /\ (UNCHANGED snapRows \/ DeleteRow(r.snap))
    /\ UNCHANGED <<inserted, snapsInVC, taken, snapPower, newest, unwanted>>

\* A worker dies; its job is recovered once its lease has run out.
SnapCrash(w) ==
    /\ snapRuns[w].at # "idle" /\ SnapFault /\ EndRun(w)
    /\ snapJobs' = [j \in SnapJobs |->
           IF w = snapJobs[j].owner THEN [snapJobs[j] EXCEPT !.status = "pending", !.owner = "none"]
           ELSE snapJobs[j]]
    /\ UNCHANGED <<stored, snapPower, unwanted>>

\* A lease runs out under an execution that goes on.
LoseLease(j) ==
    /\ snapJobs[j].status = "active" /\ SnapFault
    /\ snapJobs' = [snapJobs EXCEPT ![j].status = "pending", ![j].owner = "none"]
    /\ UNCHANGED <<stored, snapPower, snapRuns, unwanted>>

-----------------------------------------------------------------------------
SnapRun(w) ==
    \/ SnapshotVM(w) \/ DeleteSnapshot(w) \/ RevertVM(w) \/ CreateVMSnapshot(w) \/ RecordVMSnapshot(w)
    \/ SnapshotDone(w) \/ RemoveVMSnapshot(w) \/ DeleteVMSnapshot(w)

Sweep == StartSweep \/ EndSweep \/ RemoveVMSnapshot("sweep") \/ DeleteVMSnapshot("sweep")

SnapNext ==
    \/ RequestSnapshot \/ SwitchPower
    \/ \E s \in Recorded : RequestDelete(s) \/ RequestRevert(s)
    \/ \E w \in SnapWorkers : ClaimAnySnapJob(w) \/ SnapRun(w) \/ TakeFails(w) \/ RecordFails(w)
    \/ Sweep
    \/ \E w \in Removers : RemoveFails(w) \/ DeleteFails(w) \/ SnapCrash(w)
    \/ \E j \in SnapJobs : LoseLease(j)

-----------------------------------------------------------------------------
(* Properties *)

\* The snapshot its owner took last, and the initial one, can be reverted to
\* until the owner asks for its deletion: neither replacements side by side,
\* nor a job run twice, nor the sweep with an old list takes it.
NewestKept == {0, newest} \ unwanted \subseteq Recorded \cap snapsInVC

\* In the end nothing that vCenter still holds is recorded beside the newest
\* snapshot: one removal that cannot succeed does not keep the others.
SpaceReclaimed == <>[](\A r \in ListExcessUserSnapshots : r.snap \notin snapsInVC)

\* ReconcileExcessSnapshots "removes durable leftovers from interrupted
\* create-new-then-delete-old replacement jobs".
LeftoversRemoved == <>[](ListExcessUserSnapshots = {})

\* A VM is reverted only while it is stopped: RevertToSnapshot answers "vm
\* must be powered off" otherwise.
RevertsOnlyStopped ==
    [][\A w \in SnapWorkers : RevertVM(w) /\ snapRuns[w].snap \in Recorded \cap snapsInVC
           => snapPower = "stopped"]_snapVars

-----------------------------------------------------------------------------
(* The inductive invariant of NewestKept *)

SnapSpec == SnapInit /\ [][SnapNext]_snapVars

\* The row of the newest snapshot was inserted last.
NewestIsLast ==
    /\ newest <= taken /\ 0 \notin unwanted
    /\ \A s \in unwanted : s <= taken
    /\ \A r \in snapRows :
          /\ r.snap <= taken /\ r.at <= inserted
          /\ r.snap = newest => r.at = inserted

\* A job that deletes a snapshot was asked for.
DeletesAsked ==
    /\ \A j \in SnapJobs : snapJobs[j].type = "delete" => snapJobs[j].snap \in unwanted
    /\ \A w \in Removers : snapRuns[w].at = "list" /\ snapRuns[w].type = "delete" =>
                               snapRuns[w].snap \in unwanted

\* A list holds user snapshots that were recorded when it was made; once its
\* removal has begun, the newest is not among them unless the owner gave it up.
ListsSpareNewest ==
    \A w \in Removers : \A r \in snapRuns[w].todo :
        /\ r.snap # 0 /\ r.snap <= taken
        /\ snapRuns[w].at \in {"remove", "unrecord"} => r.snap # newest \/ r.snap \in unwanted

\* What was taken and is not yet recorded is in vCenter, and in no list.
TakenIsSafe ==
    \A w \in Removers : snapRuns[w].at = "record" =>
        /\ snapRuns[w].snap # 0 /\ snapRuns[w].snap <= taken /\ snapRuns[w].snap \in snapsInVC
        /\ snapRuns[w].snap \notin Recorded /\ snapRuns[w].snap # newest
        /\ \A v \in Removers :
              /\ \A r \in snapRuns[v].todo : r.snap # snapRuns[w].snap
              /\ v # w /\ snapRuns[v].at = "record" => snapRuns[v].snap # snapRuns[w].snap

SnapInv ==
    SnapTypeOK /\ NewestKept /\ NewestIsLast /\ DeletesAsked /\ ListsSpareNewest /\ TakenIsSafe
=============================================================================
