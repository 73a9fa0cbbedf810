------------------------- MODULE PodLifecycleProofs -------------------------
(***************************************************************************)
(* Proofs about PodLifecycle for every set of pods, VLANs and claim tokens: *)
(* the four invariants of a pod's life, from the inductive invariant IInv.  *)
(*                                                                         *)
(* The argument separates what a step does to the pod rows (PodMay: a pod   *)
(* never comes back from Gone), to a pod's jobs (JobOK) and to an execution *)
(* (RunOK).  Each action is shown to write rows of these kinds; StepKeeps   *)
(* puts the pieces together.                                                *)
(***************************************************************************)
EXTENDS PodLifecycle, TLAPS

USE NoneOutside, VMJobsAssumption, SweepsAssumption

Teardown == {"undo", "final", "mark", "vms", "ports", "network", "finalize",
             "fail", "fail_manual"}

\* What a write may make of a pod row, whoever writes it.
PodMay(old, new) ==
    /\ old.status \in Gone => new.status \in Gone
    /\ old.vm = "deleted" => new.vm = "deleted"
    /\ new.status \notin Gone /\ old.vm # "none" => new.vm # "none"
    /\ new.status = "active" => new.vm # "none"
    /\ new.status = "absent" => old.status = "absent"
    /\ new.status # "absent" => new.vlan # None

\* The parts of the invariant that speak of one pod's jobs.
JobOK(p) ==
    /\ DestroyIntent(p) =>
        /\ jobs[p]["create"].status \in Open => jobs[p]["create"].cleanup \/ pods[p].status \in Gone
        /\ jobs[p]["vm"].status \in Open => jobs[p]["vm"].deletes /\ pods[p].vm = "deleted"
    /\ pods[p].status = "absent" => \A k \in Kinds : jobs[p][k].status = "absent"
    /\ pods[p].status # "absent" => pods[p].vlan # None

\* The parts that speak of one execution.
MarkOK(c) ==
    runs[c].pc # "idle" /\ runs[c].kind = "create" /\ Owns(c)
    /\ JobOf(c).cleanup /\ ~runs[c].cleanup => pods[PodOf(c)].status \in Gone
RunOK(c) ==
    /\ runs[c].pc # "idle" => PodOf(c) \in Pods /\ pods[PodOf(c)].status # "absent"
    /\ runs[c].next \in {"idle", "net", "portgroup", "clone", "poweron"}
    /\ runs[c].pc \in Teardown => pods[PodOf(c)].status \in Gone
    /\ runs[c].pc = "activate" => pods[PodOf(c)].vm # "none" \/ pods[PodOf(c)].status \in Gone
    /\ MarkOK(c)

\* The invariant, pod by pod and execution by execution.
LEMMA IInvParts ==
  IInv <=> /\ TypeOK /\ VLANFollowsPod /\ NoGhostPod
           /\ \A p \in Pods : JobOK(p)
           /\ \A c \in Tokens : RunOK(c)
  BY DEF IInv, RunsWorkOnPods, TeardownMeetsNoLivePod, PoweredBeforeActive,
         DestroyExcludesMutators, MarkedByOwnCleanup, PodComesFirst, JobOK, RunOK, MarkOK,
         Teardown

\* The invariant of the next state, by its parts.
LEMMA IInvPartsNext ==
  IInv' <=> /\ TypeOK' /\ VLANFollowsPod' /\ NoGhostPod'
            /\ \A p \in Pods : JobOK(p)'
            /\ \A c \in Tokens : RunOK(c)'
  BY DEF IInv, RunsWorkOnPods, TeardownMeetsNoLivePod, PoweredBeforeActive,
         DestroyExcludesMutators, MarkedByOwnCleanup, PodComesFirst, JobOK, RunOK, MarkOK,
         Teardown

-----------------------------------------------------------------------------
(* Writes of a row *)

\* The rows that steps write have their types.
LEMMA RowTypes ==
  /\ IdleRun \in RunRows
  /\ NoPod \in PodRows
  /\ NoJob \in JobRows
  BY DEF IdleRun, RunRows, Phases, Kinds, Outcomes, NoPod, PodRows, Statuses, NoJob, JobRows, Open

\* UPDATE pods ... WHERE id = p.
LEMMA SetPodWrites ==
  ASSUME TypeOK, NEW p \in Pods, NEW row \in PodRows, SetPod(p, row)
  PROVE  /\ pods' \in [Pods -> PodRows]
         /\ pods'[p] = row
         /\ \A q \in Pods : q # p => pods'[q] = pods[q]
  BY DEF TypeOK, SetPod

\* UPDATE jobs ... of pod p.
LEMMA SetJobWrites ==
  ASSUME TypeOK, NEW p \in Pods, NEW k \in Kinds, NEW row \in JobRows, SetJob(p, k, row)
  PROVE  /\ jobs' \in [Pods -> [Kinds -> JobRows]]
         /\ jobs'[p][k] = row
         /\ \A q \in Pods : q # p => jobs'[q] = jobs[q]
         /\ \A q \in Pods, j \in Kinds : j # k => jobs'[q][j] = jobs[q][j]
  BY DEF TypeOK, SetJob

\* The local state of execution c.
LEMMA RunWrites ==
  ASSUME TypeOK, NEW c \in Tokens, NEW row \in RunRows, runs' = [runs EXCEPT ![c] = row]
  PROVE  /\ runs' \in [Tokens -> RunRows]
         /\ runs'[c] = row
         /\ \A d \in Tokens : d # c => runs'[d] = runs[d]
  BY DEF TypeOK

\* What a state's rows are.
LEMMA RowsOf ==
  ASSUME TypeOK
  PROVE  /\ \A p \in Pods : pods[p] \in PodRows
         /\ \A p \in Pods, k \in Kinds : jobs[p][k] \in JobRows
         /\ \A c \in Tokens : runs[c] \in RunRows
         /\ "create" \in Kinds /\ "destroy" \in Kinds /\ "vm" \in Kinds
  BY DEF TypeOK, Kinds

\* A write that keeps the VLAN of the row, and holds it unless the pod is done for.
LEMMA PodWriteKeepsVLANs ==
  ASSUME IInv, NEW p \in Pods, NEW row \in PodRows, SetPod(p, row), vlans' = vlans,
         PodMay(pods[p], row), row.vlan = pods[p].vlan,
         row.status \notin {"absent", "destroyed"} \/ row.status = pods[p].status,
         row.status \in {"absent", "destroyed", "destroy_failed"} \/ HoldsVLAN(p)
  PROVE  VLANFollowsPod' /\ NoGhostPod' /\ \A q \in Pods : PodMay(pods[q], pods'[q])
<1>0. TypeOK BY IInvParts
<1>1. pods'[p] = row /\ \A q \in Pods : q # p => pods'[q] = pods[q]
  BY <1>0, SetPodWrites
<1>2. VLANFollowsPod'
  BY <1>0, <1>1, IInvParts DEF VLANFollowsPod, HoldsVLAN, TypeOK
<1>3. \A q \in Pods : PodMay(pods[q], pods'[q])
  BY <1>0, <1>1, IInvParts DEF PodMay, NoGhostPod, JobOK
<1>4. NoGhostPod'
  BY <1>1, <1>3, IInvParts DEF PodMay, NoGhostPod, JobOK
<1> QED BY <1>2, <1>3, <1>4

\* The pod ends and its VLAN goes back to the pool, in one transaction.
LEMMA PodEndKeepsVLANs ==
  ASSUME IInv, NEW p \in Pods, NEW row \in PodRows, SetPod(p, row), ReleaseVLAN(p),
         PodMay(pods[p], row), row.vlan = pods[p].vlan, row.status = "destroyed"
  PROVE  /\ VLANFollowsPod' /\ NoGhostPod' /\ \A q \in Pods : PodMay(pods[q], pods'[q])
         /\ vlans' \in [Vlans -> Pods \cup {None}]
<1>0. TypeOK BY IInvParts
<1>1. pods'[p] = row /\ \A q \in Pods : q # p => pods'[q] = pods[q]
  BY <1>0, SetPodWrites
<1>2. /\ vlans' \in [Vlans -> Pods \cup {None}]
      /\ \A v \in Vlans : vlans'[v] = IF vlans[v] = p THEN None ELSE vlans[v]
  BY <1>0 DEF ReleaseVLAN, TypeOK
<1>3. VLANFollowsPod'
  <2>1. ASSUME NEW q \in Pods, pods'[q].status \notin {"absent", "destroyed", "destroy_failed"}
        PROVE  pods'[q].vlan # None /\ vlans'[pods'[q].vlan] = q
    <3>1. q # p /\ pods'[q] = pods[q] BY <1>1, <2>1
    <3>2. pods[q].vlan # None /\ vlans[pods[q].vlan] = q
      BY <2>1, <3>1, IInvParts DEF VLANFollowsPod
    <3>3. pods[q].vlan \in Vlans
      BY <3>2, <1>0, RowsOf DEF PodRows
    <3> QED BY <1>2, <3>1, <3>2, <3>3
  <2>2. ASSUME NEW v \in Vlans, NEW q \in Pods, vlans'[v] = q
        PROVE  pods'[q].vlan = v /\ pods'[q].status \notin {"absent", "destroyed"}
    <3>1. q # p /\ vlans[v] = q BY <1>2, <2>2
    <3> QED BY <3>1, <1>1, IInvParts DEF VLANFollowsPod
  <2> QED BY <2>1, <2>2 DEF VLANFollowsPod
<1>4. \A q \in Pods : PodMay(pods[q], pods'[q])
  BY <1>0, <1>1, IInvParts DEF PodMay, NoGhostPod, JobOK
<1>5. NoGhostPod'
  BY <1>1, <1>4, IInvParts DEF PodMay, NoGhostPod, JobOK
<1> QED BY <1>2, <1>3, <1>4, <1>5

\* Nothing happens to the pod rows.
LEMMA PodsStay ==
  ASSUME IInv, UNCHANGED <<pods, vlans>>
  PROVE  VLANFollowsPod' /\ NoGhostPod' /\ \A q \in Pods : PodMay(pods[q], pods'[q])
  BY IInvParts DEF VLANFollowsPod, NoGhostPod, PodMay, JobOK

\* Jobs that are not written stay in order whatever happens to their pods.
LEMMA JobStays ==
  ASSUME IInv, NEW p \in Pods, jobs'[p] = jobs[p], PodMay(pods[p], pods'[p])
  PROVE  JobOK(p)'
  BY IInvParts DEF JobOK, PodMay, DestroyIntent

\* So does an execution that is not the step's, unless the step marks its job.
LEMMA RunStays ==
  ASSUME IInv, NEW c \in Tokens, runs'[c] = runs[c],
         \A p \in Pods : PodMay(pods[p], pods'[p]),
         runs[c].pc # "idle" => \/ jobs'[PodOf(c)]["create"] = jobs[PodOf(c)]["create"]
                                \/ jobs'[PodOf(c)]["create"].owner # c
                                \/ ~jobs'[PodOf(c)]["create"].cleanup
                                \/ pods'[PodOf(c)].status \in Gone
  PROVE  RunOK(c)'
<1>0. RunOK(c) BY IInvParts
<1>1. CASE runs[c].pc = "idle"
  BY <1>0, <1>1 DEF RunOK, MarkOK, Teardown
<1>2. CASE runs[c].pc # "idle"
  <2>1. PodOf(c) \in Pods /\ PodMay(pods[PodOf(c)], pods'[PodOf(c)])
    BY <1>0, <1>2 DEF RunOK
  <2>2. MarkOK(c)'
    BY <1>0, <1>2, <2>1 DEF RunOK, MarkOK, PodOf, JobOf, Owns, PodMay
  <2> QED BY <1>0, <2>1, <2>2 DEF RunOK, PodOf, PodMay
<1> QED BY <1>1, <1>2

\* A step of execution c, or of none, which marks at most the job that c owns.
LEMMA StepKeeps ==
  ASSUME IInv, NEW c, TypeOK', VLANFollowsPod', NoGhostPod',
         \A p \in Pods : PodMay(pods[p], pods'[p]),
         \A p \in Pods : jobs'[p] = jobs[p] \/ JobOK(p)',
         \A d \in Tokens : d # c => runs'[d] = runs[d],
         c \in Tokens => RunOK(c)',
         \A p \in Pods : \/ jobs'[p]["create"] = jobs[p]["create"]
                         \/ jobs'[p]["create"].owner \in {c, None}
                         \/ ~jobs'[p]["create"].cleanup
                         \/ pods'[p].status \in Gone
  PROVE  IInv'
<1>1. \A p \in Pods : JobOK(p)'
  BY JobStays
<1>2. ASSUME NEW d \in Tokens, d # c PROVE RunOK(d)'
  <2>1. runs[d].pc # "idle" => PodOf(d) \in Pods
    BY IInvParts DEF RunOK
  <2> QED BY <1>2, <2>1, RunStays
<1> QED BY <1>1, <1>2, IInvPartsNext

-----------------------------------------------------------------------------
(* Steps that only move an execution *)

\* runs'[c] is row and the other executions are as they were.
RunBecomes(c, row) ==
    /\ runs' \in [Tokens -> RunRows]
    /\ runs'[c] = row
    /\ \A d \in Tokens : d # c => runs'[d] = runs[d]

\* A step that changes only the place of an execution.
LEMMA GotoBecomes ==
  ASSUME TypeOK, NEW c \in Tokens, NEW pc \in Phases, Goto(c, pc)
  PROVE  RunBecomes(c, [runs[c] EXCEPT !.pc = pc])
  BY DEF TypeOK, Goto, RunBecomes, RunRows

\* The body returns: a settling execution of the same job, or none.
LEMMA SettleBecomes ==
  ASSUME TypeOK, NEW c \in Tokens, NEW out \in Outcomes, PodOf(c) \in Pods, Settle(c, out)
  PROVE  /\ RunBecomes(c, runs'[c])
         /\ runs'[c].pc \in {"settle", "idle"} /\ runs'[c].next = "idle"
         /\ runs'[c].pc = "settle" => /\ runs'[c].pod = PodOf(c)
                                      /\ runs'[c].kind = runs[c].kind
                                      /\ runs'[c].cleanup = runs[c].cleanup
<1> DEFINE row == IF Owns(c) THEN [IdleRun EXCEPT !.pc = "settle", !.pod = PodOf(c),
                                     !.kind = runs[c].kind, !.cleanup = runs[c].cleanup, !.out = out]
                             ELSE IdleRun
<1>1. row \in RunRows
  BY RowTypes DEF IdleRun, RunRows, TypeOK, Phases
<1>2. runs' = [runs EXCEPT ![c] = row]
  BY DEF Settle
<1>3. RunBecomes(c, row)
  BY <1>1, <1>2, RunWrites DEF RunBecomes
<1> HIDE DEF row
<1>4. runs'[c] = row
  BY <1>3 DEF RunBecomes
<1> QED BY <1>3, <1>4 DEF row, IdleRun, RunBecomes

\* Settling is in order when the step did not mark the job behind its back.
LEMMA SettleOK ==
  ASSUME IInv, NEW c \in Tokens, NEW out \in Outcomes, runs[c].pc # "idle", Settle(c, out),
         \A p \in Pods : PodMay(pods[p], pods'[p]),
         \/ jobs'[PodOf(c)]["create"] = jobs[PodOf(c)]["create"]
         \/ jobs'[PodOf(c)]["create"].owner # c
         \/ ~jobs'[PodOf(c)]["create"].cleanup
         \/ pods'[PodOf(c)].status \in Gone
  PROVE  RunBecomes(c, runs'[c]) /\ RunOK(c)'
<1>0. TypeOK /\ RunOK(c) /\ PodOf(c) \in Pods BY IInvParts DEF RunOK
<1>1. /\ RunBecomes(c, runs'[c])
      /\ runs'[c].pc \in {"settle", "idle"} /\ runs'[c].next = "idle"
      /\ runs'[c].pc = "settle" => /\ runs'[c].pod = PodOf(c)
                                   /\ runs'[c].kind = runs[c].kind
                                   /\ runs'[c].cleanup = runs[c].cleanup
  BY <1>0, SettleBecomes
<1>2. MarkOK(c)'
  BY <1>0, <1>1 DEF RunOK, MarkOK, PodOf, JobOf, Owns, PodMay
<1> QED BY <1>0, <1>1, <1>2 DEF RunOK, PodOf, Teardown, PodMay

\* An execution that goes on with its pod and its claim, at a step that fits what
\* has become of the pod.
LEMMA MoveOK ==
  ASSUME IInv, NEW c \in Tokens, NEW row \in RunRows, RunBecomes(c, row), runs[c].pc # "idle",
         \A p \in Pods : PodMay(pods[p], pods'[p]),
         \/ jobs'[PodOf(c)]["create"] = jobs[PodOf(c)]["create"]
         \/ jobs'[PodOf(c)]["create"].owner # c
         \/ ~jobs'[PodOf(c)]["create"].cleanup
         \/ pods'[PodOf(c)].status \in Gone,
         row.pod = PodOf(c), row.kind = runs[c].kind, row.cleanup = runs[c].cleanup,
         row.next \in {"idle", "net", "portgroup", "clone", "poweron"},
         row.pc \in Teardown => pods'[PodOf(c)].status \in Gone,
         row.pc = "activate" => pods'[PodOf(c)].vm # "none" \/ pods'[PodOf(c)].status \in Gone
  PROVE  RunOK(c)'
<1>0. RunOK(c) /\ PodOf(c) \in Pods BY IInvParts DEF RunOK
<1>1. runs'[c] = row BY DEF RunBecomes
<1>2. MarkOK(c)'
  BY <1>0, <1>1 DEF RunOK, MarkOK, PodOf, JobOf, Owns, PodMay
<1> QED BY <1>0, <1>1, <1>2 DEF RunOK, PodOf, PodMay

\* Such a step keeps the invariant.
LEMMA RunOnlyKeeps ==
  ASSUME IInv, NEW c \in Tokens, RunBecomes(c, runs'[c]), RunOK(c)',
         UNCHANGED <<pods, vlans, jobs>>, net' \subseteq Vlans
  PROVE  IInv'
<1>1. TypeOK'
  BY IInvParts DEF TypeOK, RunBecomes
<1>2. VLANFollowsPod' /\ NoGhostPod' /\ \A q \in Pods : PodMay(pods[q], pods'[q])
  BY PodsStay
<1> QED BY <1>1, <1>2, StepKeeps DEF RunBecomes

\* The body returns and nothing else happens.
LEMMA SettleKeeps ==
  ASSUME IInv, NEW c \in Tokens, NEW out \in Outcomes, runs[c].pc # "idle", Settle(c, out),
         UNCHANGED <<pods, vlans, jobs, net>>
  PROVE  IInv'
<1>1. \A p \in Pods : PodMay(pods[p], pods'[p])
  BY PodsStay
<1>2. RunBecomes(c, runs'[c]) /\ RunOK(c)'
  BY <1>1, SettleOK
<1>3. net' \subseteq Vlans
  BY IInvParts DEF TypeOK
<1> QED BY <1>2, <1>3, RunOnlyKeeps

\* The body goes on at another step.
LEMMA MoveKeeps ==
  ASSUME IInv, NEW c \in Tokens, NEW row \in RunRows, runs' = [runs EXCEPT ![c] = row],
         UNCHANGED <<pods, vlans, jobs>>, net' \subseteq Vlans, runs[c].pc # "idle",
         row.pod = PodOf(c), row.kind = runs[c].kind, row.cleanup = runs[c].cleanup,
         row.next \in {"idle", "net", "portgroup", "clone", "poweron"},
         row.pc \in Teardown => pods[PodOf(c)].status \in Gone,
         row.pc = "activate" => pods[PodOf(c)].vm # "none" \/ pods[PodOf(c)].status \in Gone
  PROVE  IInv'
<1>1. RunBecomes(c, row)
  BY IInvParts, RunWrites DEF RunBecomes
<1>2. RunBecomes(c, runs'[c])
  BY <1>1 DEF RunBecomes
<1>3. \A p \in Pods : PodMay(pods[p], pods'[p])
  BY PodsStay
<1>4. RunOK(c)'
  BY <1>1, <1>3, MoveOK
<1> QED BY <1>2, <1>4, RunOnlyKeeps

\* stopPodCreateIfStale, in both forms.
LEMMA RecheckKeeps ==
  ASSUME IInv, NEW c \in Tokens, Recheck(c) \/ StopRefused(c)
  PROVE  IInv'
<1>0. TypeOK /\ RunOK(c) /\ runs[c] \in RunRows /\ net' \subseteq Vlans /\ runs[c].pc # "idle"
  BY IInvParts, RowsOf DEF Recheck, StopRefused, At, TypeOK
<1>1. CASE runs' = [runs EXCEPT ![c].pc = runs[c].next, ![c].next = "idle"]
  <2> DEFINE row == [runs[c] EXCEPT !.pc = runs[c].next, !.next = "idle"]
  <2>1. row \in RunRows /\ runs' = [runs EXCEPT ![c] = row]
    BY ZenonT(60), <1>0, <1>1 DEF RunRows, RunOK, Phases, TypeOK
  <2>2. row.pc \notin Teardown \cup {"activate"}
    BY <1>0 DEF RunRows, RunOK, Teardown
  <2> QED BY <1>0, <2>1, <2>2, MoveKeeps DEF Recheck, StopRefused, PodOf, RunRows
<1>2. CASE runs' = [runs EXCEPT ![c].pc = "begin", ![c].next = "idle", ![c].allow = FALSE]
  <2> DEFINE row == [runs[c] EXCEPT !.pc = "begin", !.next = "idle", !.allow = FALSE]
  <2>1. row \in RunRows /\ runs' = [runs EXCEPT ![c] = row]
    BY ZenonT(60), <1>0, <1>2 DEF RunRows, RunOK, Phases, TypeOK
  <2> QED BY <1>0, <2>1, MoveKeeps DEF Recheck, StopRefused, PodOf, RunRows, Teardown
<1>3. CASE Settle(c, "ok")
  BY <1>0, <1>3, SettleKeeps DEF Recheck, StopRefused, Outcomes
<1> QED BY <1>1, <1>2, <1>3 DEF Recheck, StopRefused

\* The steps of CreatePod that write no row: the firewall, the power-on, and the
\* ways out of a step that failed.
LEMMA BuildMovesKeep ==
  ASSUME IInv, NEW c \in Tokens, BuildNetwork(c) \/ PowerOnVMs(c) \/ BuildFails(c)
  PROVE  IInv'
<1>0. TypeOK /\ RunOK(c) /\ runs[c] \in RunRows /\ runs[c].pc # "idle"
  BY IInvParts, RowsOf DEF BuildNetwork, PowerOnVMs, BuildFails, At
<1>1. CASE BuildNetwork(c)
  <2> DEFINE row == [runs[c] EXCEPT !.pc = "record"]
  <2>1. row \in RunRows /\ runs' = [runs EXCEPT ![c] = row]
    BY <1>0, <1>1 DEF RunRows, Phases, TypeOK, BuildNetwork, Goto
  <2>2. net' \subseteq Vlans
    <3>1. pods[PodOf(c)] \in PodRows /\ pods[PodOf(c)].vlan # None
      BY <1>0, IInvParts, RowsOf DEF RunOK, JobOK
    <3> QED BY <1>0, <1>1, <3>1 DEF BuildNetwork, TypeOK, PodRows
  <2> QED BY <1>0, <1>1, <2>1, <2>2, MoveKeeps DEF BuildNetwork, PodOf, RunRows, Teardown, RunOK
<1>2. CASE PowerOnVMs(c)
  <2> DEFINE row == [runs[c] EXCEPT !.pc = "activate"]
  <2>1. row \in RunRows /\ runs' = [runs EXCEPT ![c] = row]
    BY <1>0, <1>2 DEF RunRows, Phases, TypeOK, PowerOnVMs, Goto
  <2>2. net' \subseteq Vlans
    BY <1>0, <1>2 DEF TypeOK, PowerOnVMs
  <2> QED BY <1>0, <1>2, <2>1, <2>2, MoveKeeps DEF PowerOnVMs, PodOf, RunRows, Teardown, RunOK
<1>3. CASE BuildFails(c)
  <2>1. CASE runs' = [runs EXCEPT ![c].pc = "begin", ![c].allow = TRUE]
    <3> DEFINE row == [runs[c] EXCEPT !.pc = "begin", !.allow = TRUE]
    <3>1. row \in RunRows /\ runs' = [runs EXCEPT ![c] = row]
      BY ZenonT(60), <1>0, <2>1 DEF RunRows, Phases, TypeOK
    <3>2. net' \subseteq Vlans
      BY <1>0, <1>3 DEF TypeOK, BuildFails
    <3> QED BY <1>0, <1>3, <3>1, <3>2, MoveKeeps DEF BuildFails, PodOf, RunRows, Teardown, RunOK
  <2>2. CASE Settle(c, "error")
    BY <1>0, <1>3, <2>2, SettleKeeps DEF BuildFails, Outcomes
  <2> QED BY <1>3, <2>1, <2>2 DEF BuildFails
<1> QED BY <1>1, <1>2, <1>3

\* The steps of the clean-up that write no row.
LEMMA CleanupMovesKeep ==
  ASSUME IInv, NEW c \in Tokens,
         BeginFails(c) \/ NothingToUndo(c) \/ MarkCompensated(c) \/ CleanupFails(c)
  PROVE  IInv'
<1>0. TypeOK /\ RunOK(c) /\ runs[c] \in RunRows /\ runs[c].pc # "idle"
  BY IInvParts, RowsOf DEF BeginFails, NothingToUndo, MarkCompensated, CleanupFails, At
<1>1. CASE NothingToUndo(c)
  <2> DEFINE row == [runs[c] EXCEPT !.pc = "final"]
  <2>1. row \in RunRows /\ runs' = [runs EXCEPT ![c] = row] /\ net' \subseteq Vlans
    BY <1>0, <1>1 DEF RunRows, Phases, TypeOK, NothingToUndo, Goto
  <2>2. pods[PodOf(c)].status \in Gone
    BY <1>0, <1>1 DEF RunOK, NothingToUndo, At, Teardown
  <2> QED BY <1>0, <1>1, <2>1, <2>2, MoveKeeps DEF NothingToUndo, PodOf, RunRows, RunOK
<1>2. CASE BeginFails(c) \/ MarkCompensated(c) \/ CleanupFails(c)
  <2>1. PICK out \in Outcomes : Settle(c, out)
    BY <1>2 DEF BeginFails, MarkCompensated, CleanupFails, Outcomes
  <2>2. UNCHANGED <<pods, vlans, jobs, net>>
    BY <1>2 DEF BeginFails, MarkCompensated, CleanupFails
  <2> QED BY <1>0, <2>1, <2>2, SettleKeeps
<1> QED BY <1>1, <1>2

\* The steps of DestroyPod that write no row.
LEMMA DestroyMovesKeep ==
  ASSUME IInv, NEW c \in Tokens,
         PrepareStops(c) \/ DeleteNetwork(c) \/ CollectedErrors(c) \/ FinalizeFails(c)
  PROVE  IInv'
<1>0. TypeOK /\ RunOK(c) /\ runs[c] \in RunRows /\ runs[c].pc # "idle"
  BY IInvParts, RowsOf DEF PrepareStops, DeleteNetwork, CollectedErrors, FinalizeFails, At
<1>1. CASE DeleteNetwork(c) \/ CollectedErrors(c)
  <2>1. pods[PodOf(c)].status \in Gone
    BY <1>0, <1>1 DEF RunOK, DeleteNetwork, CollectedErrors, At, Teardown
  <2>2. net' \subseteq Vlans /\ UNCHANGED <<pods, vlans, jobs>>
    BY <1>0, <1>1 DEF DeleteNetwork, CollectedErrors, TypeOK
  <2>3. PICK pc \in {"finalize", "fail"}, errs \in BOOLEAN :
           runs' = [runs EXCEPT ![c] = [runs[c] EXCEPT !.pc = pc, !.errs = errs]]
    <3>1. CASE DeleteNetwork(c) /\ Goto(c, "finalize")
      <4>1. runs' = [runs EXCEPT ![c] = [runs[c] EXCEPT !.pc = "finalize", !.errs = runs[c].errs]]
        BY <1>0, <3>1 DEF Goto, RunRows, TypeOK
      <4>2. runs[c].errs \in BOOLEAN
        BY <1>0 DEF RunRows
      <4> QED BY <4>1, <4>2
    <3>2. CASE runs' = [runs EXCEPT ![c].pc = "finalize", ![c].errs = TRUE]
      BY <3>2
    <3>3. CASE runs' = [runs EXCEPT ![c].pc = "fail", ![c].errs = FALSE]
      BY <3>3
    <3> QED BY <1>1, <3>1, <3>2, <3>3 DEF DeleteNetwork, CollectedErrors
  <2> DEFINE row == [runs[c] EXCEPT !.pc = pc, !.errs = errs]
  <2>4. row \in RunRows
    BY <1>0 DEF RunRows, Phases
  <2> QED BY <1>0, <2>1, <2>2, <2>3, <2>4, MoveKeeps DEF PodOf, RunRows, RunOK
<1>2. CASE PrepareStops(c) \/ FinalizeFails(c)
  <2>1. PICK out \in Outcomes : Settle(c, out)
    BY <1>2 DEF PrepareStops, FinalizeFails, Outcomes
  <2>2. UNCHANGED <<pods, vlans, jobs, net>>
    BY <1>2 DEF PrepareStops, FinalizeFails
  <2> QED BY <1>0, <2>1, <2>2, SettleKeeps
<1> QED BY <1>1, <1>2

\* A VM job that leaves the pod's rows alone, and a worker that dies.
LEMMA OtherMovesKeep ==
  ASSUME IInv, NEW c \in Tokens, OperateVM(c) \/ Crash(c)
  PROVE  IInv'
<1>1. CASE OperateVM(c)
  <2>1. PICK out \in Outcomes : Settle(c, out)
    BY <1>1 DEF OperateVM, Outcomes
  <2> QED BY <1>1, <2>1, SettleKeeps DEF OperateVM, At
<1>2. CASE Crash(c)
  <2>1. RunBecomes(c, IdleRun)
    BY <1>2, IInvParts, RowTypes, RunWrites DEF Crash, RunBecomes
  <2>2. RunOK(c)'
    BY <2>1 DEF RunBecomes, RunOK, MarkOK, IdleRun, Teardown
  <2>3. net' \subseteq Vlans /\ RunBecomes(c, runs'[c])
    BY <1>2, <2>1, IInvParts DEF Crash, TypeOK, RunBecomes
  <2> QED BY <1>2, <2>2, <2>3, RunOnlyKeeps DEF Crash
<1> QED BY <1>1, <1>2

-----------------------------------------------------------------------------
(* Steps that write the pod row *)

\* The row of the pod an execution works on.
LEMMA PodAt ==
  ASSUME IInv, NEW c \in Tokens, runs[c].pc # "idle"
  PROVE  /\ TypeOK /\ RunOK(c) /\ runs[c] \in RunRows
         /\ PodOf(c) \in Pods /\ pods[PodOf(c)] \in PodRows
         /\ pods[PodOf(c)].status # "absent" /\ pods[PodOf(c)].vlan # None
         /\ runs[c].pc \in Teardown => pods[PodOf(c)].status \in Gone
         /\ pods[PodOf(c)].status \notin {"destroyed", "destroy_failed"} => HoldsVLAN(PodOf(c))
         /\ pods[PodOf(c)].status = "active" => pods[PodOf(c)].vm # "none"
<1>1. TypeOK /\ RunOK(c) /\ runs[c] \in RunRows /\ PodOf(c) \in Pods
  BY IInvParts, RowsOf DEF RunOK
<1> QED BY <1>1, IInvParts, RowsOf DEF RunOK, JobOK, VLANFollowsPod, HoldsVLAN, NoGhostPod

\* An execution writes its pod's row and goes on.
LEMMA PodStepKeeps ==
  ASSUME IInv, NEW c \in Tokens, NEW p \in Pods, NEW row \in PodRows, SetPod(p, row),
         PodMay(pods[p], row), row.vlan = pods[p].vlan,
         row.status \notin {"absent", "destroyed"} \/ row.status = pods[p].status,
         row.status \in {"absent", "destroyed", "destroy_failed"} \/ HoldsVLAN(p),
         UNCHANGED <<vlans, jobs, net>>,
         RunBecomes(c, runs'[c]), RunOK(c)'
  PROVE  IInv'
<1>1. VLANFollowsPod' /\ NoGhostPod' /\ \A q \in Pods : PodMay(pods[q], pods'[q])
  BY PodWriteKeepsVLANs
<1>2. TypeOK'
  BY IInvParts, SetPodWrites DEF TypeOK, RunBecomes
<1> QED BY <1>1, <1>2, StepKeeps DEF RunBecomes

\* An execution that goes on after it wrote its pod's row.
LEMMA PodMoveKeeps ==
  ASSUME IInv, NEW c \in Tokens, runs[c].pc # "idle",
         NEW row \in PodRows, SetPod(PodOf(c), row),
         PodMay(pods[PodOf(c)], row), row.vlan = pods[PodOf(c)].vlan,
         row.status \notin {"absent", "destroyed"} \/ row.status = pods[PodOf(c)].status,
         row.status \in {"absent", "destroyed", "destroy_failed"} \/ HoldsVLAN(PodOf(c)),
         UNCHANGED <<vlans, jobs, net>>,
         NEW to \in RunRows, runs' = [runs EXCEPT ![c] = to],
         to.pod = PodOf(c), to.kind = runs[c].kind, to.cleanup = runs[c].cleanup,
         to.next \in {"idle", "net", "portgroup", "clone", "poweron"},
         to.pc \in Teardown => row.status \in Gone,
         to.pc = "activate" => row.vm # "none" \/ row.status \in Gone
  PROVE  IInv'
<1>0. TypeOK /\ PodOf(c) \in Pods
  BY PodAt
<1>1. \A q \in Pods : PodMay(pods[q], pods'[q])
  BY <1>0, PodWriteKeepsVLANs
<1>2. RunBecomes(c, to) /\ RunBecomes(c, runs'[c])
  BY <1>0, RunWrites DEF RunBecomes
<1>3. pods'[PodOf(c)] = row
  BY <1>0, SetPodWrites
<1>4. RunOK(c)'
  BY <1>1, <1>2, <1>3, MoveOK
<1> QED BY <1>0, <1>2, <1>4, PodStepKeeps

\* An execution that returns after it wrote its pod's row.
LEMMA PodSettleKeeps ==
  ASSUME IInv, NEW c \in Tokens, runs[c].pc # "idle",
         NEW row \in PodRows, SetPod(PodOf(c), row),
         PodMay(pods[PodOf(c)], row), row.vlan = pods[PodOf(c)].vlan,
         row.status \notin {"absent", "destroyed"} \/ row.status = pods[PodOf(c)].status,
         row.status \in {"absent", "destroyed", "destroy_failed"} \/ HoldsVLAN(PodOf(c)),
         UNCHANGED <<vlans, jobs, net>>,
         NEW out \in Outcomes, Settle(c, out)
  PROVE  IInv'
<1>0. TypeOK /\ PodOf(c) \in Pods
  BY PodAt
<1>1. \A q \in Pods : PodMay(pods[q], pods'[q])
  BY <1>0, PodWriteKeepsVLANs
<1>2. RunBecomes(c, runs'[c]) /\ RunOK(c)'
  BY <1>1, SettleOK
<1> QED BY <1>0, <1>2, PodStepKeeps

\* The compare-and-swap into provisioning.
LEMMA StartCreateKeeps ==
  ASSUME IInv, NEW c \in Tokens, StartCreate(c)
  PROVE  IInv'
<1> DEFINE p == PodOf(c)
<1>0. runs[c].pc # "idle"
  BY DEF StartCreate, At
<1>1. CASE StatusIn(p, {"pending", "provisioning"})
  <2> DEFINE row == [pods[p] EXCEPT !.status = "provisioning"]
             to == [runs[c] EXCEPT !.pc = "check", !.next = "net"]
  <2>1. row \in PodRows /\ PodMay(pods[p], row) /\ HoldsVLAN(p)
    BY <1>0, <1>1, PodAt DEF PodRows, Statuses, PodMay, StatusIn, Gone
  <2>2. to \in RunRows /\ to.pod = PodOf(c) /\ to.kind = runs[c].kind
        /\ to.cleanup = runs[c].cleanup /\ to.pc = "check" /\ to.next = "net"
    BY ZenonT(60), <1>0, PodAt DEF RunRows, Phases, PodOf
  <2>3. SetPod(p, row) /\ runs' = [runs EXCEPT ![c] = to] /\ UNCHANGED <<vlans, jobs, net>>
    BY <1>0, <1>1, PodAt DEF StartCreate, TypeOK, RunRows
  <2>4. row.vlan = pods[p].vlan /\ row.status = "provisioning"
    BY <1>0, PodAt DEF PodRows
  <2> QED BY <1>0, <2>1, <2>2, <2>3, <2>4, PodMoveKeeps DEF Teardown
<1>2. CASE ~StatusIn(p, {"pending", "provisioning"})
  <2> DEFINE to == [runs[c] EXCEPT !.pc = "refused"]
  <2>1. to \in RunRows /\ to.pod = PodOf(c) /\ to.kind = runs[c].kind
        /\ to.cleanup = runs[c].cleanup /\ to.pc = "refused" /\ to.next = runs[c].next
    BY <1>0, PodAt DEF RunRows, Phases, PodOf
  <2>2. runs' = [runs EXCEPT ![c] = to] /\ UNCHANGED <<pods, vlans, jobs, net>> /\ net' \subseteq Vlans
    BY <1>0, <1>2, PodAt DEF StartCreate, Goto, TypeOK
  <2> QED BY <1>0, <2>1, <2>2, PodAt, MoveKeeps DEF Teardown, RunOK
<1> QED BY <1>1, <1>2

\* The port groups' receipt and the clone, both written under the claim.
LEMMA BuildWritesKeep ==
  ASSUME IInv, NEW c \in Tokens, BuildPortGroup(c) \/ CloneVM(c)
  PROVE  IInv'
<1> DEFINE p == PodOf(c)
<1>0. runs[c].pc # "idle"
  BY DEF BuildPortGroup, CloneVM, At
<1>1. CASE BuildPortGroup(c)
  <2> DEFINE row == [pods[p] EXCEPT !.receipt = "live"]
             to == [runs[c] EXCEPT !.pc = "check", !.next = "clone"]
  <2>1. row \in PodRows /\ PodMay(pods[p], row) /\ row.vlan = pods[p].vlan
        /\ row.status = pods[p].status
    BY <1>0, PodAt DEF PodRows, PodMay
  <2>2. to \in RunRows /\ to.pod = PodOf(c) /\ to.kind = runs[c].kind
        /\ to.cleanup = runs[c].cleanup /\ to.pc = "check" /\ to.next = "clone"
    BY ZenonT(60), <1>0, PodAt DEF RunRows, Phases, PodOf
  <2>3. SetPod(p, row) /\ runs' = [runs EXCEPT ![c] = to] /\ UNCHANGED <<vlans, jobs, net>>
    BY <1>0, <1>1, PodAt DEF BuildPortGroup, TypeOK, RunRows
  <2> QED BY <1>0, <2>1, <2>2, <2>3, PodAt, PodMoveKeeps DEF Teardown
<1>2. CASE CloneVM(c)
  <2> DEFINE row == [pods[p] EXCEPT !.vm = "present"]
             to == [runs[c] EXCEPT !.pc = "check", !.next = "poweron"]
  <2>1. row \in PodRows /\ PodMay(pods[p], row) /\ row.vlan = pods[p].vlan
        /\ row.status = pods[p].status
    BY <1>0, <1>2, PodAt DEF PodRows, PodMay, CloneVM, MayClone
  <2>2. to \in RunRows /\ to.pod = PodOf(c) /\ to.kind = runs[c].kind
        /\ to.cleanup = runs[c].cleanup /\ to.pc = "check" /\ to.next = "poweron"
    BY ZenonT(60), <1>0, PodAt DEF RunRows, Phases, PodOf
  <2>3. SetPod(p, row) /\ runs' = [runs EXCEPT ![c] = to] /\ UNCHANGED <<vlans, jobs, net>>
    BY <1>0, <1>2, PodAt DEF CloneVM, TypeOK, RunRows
  <2> QED BY <1>0, <2>1, <2>2, <2>3, PodAt, PodMoveKeeps DEF Teardown
<1> QED BY <1>1, <1>2

\* The compare-and-swap into active: the VM is there, since nobody tears a pod
\* down that is still provisioning.
LEMMA ActivateKeeps ==
  ASSUME IInv, NEW c \in Tokens, Activate(c)
  PROVE  IInv'
<1> DEFINE p == PodOf(c)
<1>0. runs[c].pc = "activate"
  BY DEF Activate, At
<1>1. CASE StatusIn(p, {"provisioning"})
  <2> DEFINE row == [pods[p] EXCEPT !.status = "active"]
  <2>1. pods[p].vm # "none" /\ pods[p].status = "provisioning"
    BY <1>0, <1>1, PodAt DEF RunOK, StatusIn, Gone
  <2>2. row \in PodRows /\ PodMay(pods[p], row) /\ HoldsVLAN(p) /\ row.vlan = pods[p].vlan
        /\ row.status = "active"
    BY <1>0, <2>1, PodAt DEF PodRows, Statuses, PodMay, Gone
  <2>3. SetPod(p, row) /\ Settle(c, "ok") /\ UNCHANGED <<vlans, jobs, net>>
    BY <1>1 DEF Activate
  <2> QED BY <1>0, <2>2, <2>3, PodSettleKeeps DEF Outcomes
<1>2. CASE ~StatusIn(p, {"provisioning"})
  <2> DEFINE to == [runs[c] EXCEPT !.pc = "refused"]
  <2>1. to \in RunRows /\ to.pod = PodOf(c) /\ to.kind = runs[c].kind
        /\ to.cleanup = runs[c].cleanup /\ to.pc = "refused" /\ to.next = runs[c].next
    BY <1>0, PodAt DEF RunRows, Phases, PodOf
  <2>2. runs' = [runs EXCEPT ![c] = to] /\ UNCHANGED <<pods, vlans, jobs, net>> /\ net' \subseteq Vlans
    BY <1>0, <1>2, PodAt DEF Activate, Goto, TypeOK
  <2> QED BY <1>0, <2>1, <2>2, PodAt, MoveKeeps DEF Teardown, RunOK
<1> QED BY <1>1, <1>2

\* A step of DestroyPod on a pod that is gone with it.
LEMMA TeardownMoveKeeps ==
  ASSUME IInv, NEW c \in Tokens, runs[c].pc # "idle",
         NEW row \in PodRows, SetPod(PodOf(c), row),
         PodMay(pods[PodOf(c)], row), row.vlan = pods[PodOf(c)].vlan, row.status \in Gone,
         row.status = "destroyed" => pods[PodOf(c)].status = "destroyed",
         row.status \in {"destroyed", "destroy_failed"} \/ HoldsVLAN(PodOf(c)),
         UNCHANGED <<vlans, jobs, net>>,
         NEW pc \in Teardown, NEW errs \in BOOLEAN,
         runs' = [runs EXCEPT ![c].pc = pc, ![c].errs = errs]
  PROVE  IInv'
<1> DEFINE to == [runs[c] EXCEPT !.pc = pc, !.errs = errs]
<1>0. pc \in Phases /\ runs[c] \in RunRows
  BY PodAt DEF Phases, Teardown
<1>1. to \in RunRows /\ to.pod = PodOf(c) /\ to.kind = runs[c].kind
      /\ to.cleanup = runs[c].cleanup /\ to.pc = pc /\ to.next = runs[c].next
  BY <1>0 DEF RunRows, PodOf
<1>2. pc # "activate" /\ row.status # "absent"
  BY DEF Teardown, Gone
<1>3. to.next \in {"idle", "net", "portgroup", "clone", "poweron"}
  BY <1>1, PodAt DEF RunOK
<1>4. runs' = [runs EXCEPT ![c] = to]
  BY PodAt DEF TypeOK, RunRows
<1>5. row.status # "destroyed" \/ row.status = pods[PodOf(c)].status
  OBVIOUS
<1> HIDE DEF to
<1> QED BY ZenonT(60), <1>1, <1>2, <1>3, <1>4, <1>5, PodMoveKeeps

\* Going on is keeping the errors collected so far.
LEMMA GotoKeepsErrors ==
  ASSUME TypeOK, NEW c \in Tokens, NEW pc \in Phases, Goto(c, pc)
  PROVE  /\ runs[c].errs \in BOOLEAN
         /\ runs' = [runs EXCEPT ![c].pc = pc, ![c].errs = runs[c].errs]
  BY DEF TypeOK, RunRows, Goto

\* The row of the pod as it is, written back.
LEMMA SamePod ==
  ASSUME IInv, NEW c \in Tokens, runs[c].pc # "idle", pods' = pods
  PROVE  SetPod(PodOf(c), pods[PodOf(c)]) /\ PodMay(pods[PodOf(c)], pods[PodOf(c)])
  BY PodAt DEF SetPod, TypeOK, PodMay

\* PreparePodDestroy locks the job and the pod: the pod is gone from here on.
LEMMA PrepareDestroyKeeps ==
  ASSUME IInv, NEW c \in Tokens, PrepareDestroy(c)
  PROVE  IInv'
<1> DEFINE p == PodOf(c)
           row == [pods[p] EXCEPT !.status = "destroying", !.manual = FALSE]
<1>0. runs[c].pc # "idle"
  BY DEF PrepareDestroy, At
<1>1. row \in PodRows /\ PodMay(pods[p], row) /\ row.vlan = pods[p].vlan
      /\ row.status = "destroying" /\ row.status \in Gone
  BY ZenonT(60), <1>0, PodAt DEF PodRows, Statuses, PodMay, Gone
<1>2. SetPod(p, row) /\ HoldsVLAN(p) /\ UNCHANGED <<vlans, jobs, net>>
  BY DEF PrepareDestroy
<1>3. runs[c].errs \in BOOLEAN /\ runs' = [runs EXCEPT ![c].pc = "vms", ![c].errs = runs[c].errs]
  BY <1>0, PodAt, GotoKeepsErrors DEF PrepareDestroy, Phases
<1>4. "vms" \in Teardown
  BY DEF Teardown
<1> HIDE DEF row
<1> QED BY <1>0, <1>1, <1>2, <1>3, <1>4, TeardownMoveKeeps

\* Steps 1 and 2 of DestroyPod: only the VM of a pod that is gone goes.
LEMMA DestroyVMsKeeps ==
  ASSUME IInv, NEW c \in Tokens, DestroyVMs(c)
  PROVE  IInv'
<1> DEFINE p == PodOf(c)
           row == [pods[p] EXCEPT !.vm = IF @ = "present" THEN "none" ELSE @]
<1>0. runs[c].pc # "idle" /\ "ports" \in Teardown /\ UNCHANGED <<vlans, jobs, net>>
  BY DEF DestroyVMs, At, Teardown
<1>1. pods[p].status \in Gone
  BY <1>0, PodAt DEF DestroyVMs, At, Teardown
<1>2. CASE SetPod(p, row) /\ Goto(c, "ports")
  <2>1. row \in PodRows /\ PodMay(pods[p], row) /\ row.vlan = pods[p].vlan
        /\ row.status = pods[p].status /\ row.status \in Gone
        /\ (row.status \in {"destroyed", "destroy_failed"} \/ HoldsVLAN(p))
    BY <1>0, <1>1, PodAt DEF PodRows, PodMay, Gone
  <2>2. runs[c].errs \in BOOLEAN
        /\ runs' = [runs EXCEPT ![c].pc = "ports", ![c].errs = runs[c].errs]
    BY <1>0, <1>2, PodAt, GotoKeepsErrors DEF Phases
  <2> HIDE DEF row
  <2> QED BY <1>0, <1>2, <2>1, <2>2, TeardownMoveKeeps
<1>3. CASE pods' = pods /\ runs' = [runs EXCEPT ![c].pc = "ports", ![c].errs = TRUE]
  <2>1. pods[p] \in PodRows /\ SetPod(p, pods[p]) /\ PodMay(pods[p], pods[p])
        /\ (pods[p].status \in {"destroyed", "destroy_failed"} \/ HoldsVLAN(p))
    BY <1>0, <1>3, PodAt, SamePod
  <2> QED BY <1>0, <1>1, <1>3, <2>1, TeardownMoveKeeps
<1> QED BY <1>2, <1>3 DEF DestroyVMs

\* Step 3 of DestroyPod: the port groups of the receipt.
LEMMA DeletePortGroupsKeeps ==
  ASSUME IInv, NEW c \in Tokens, DeletePortGroups(c)
  PROVE  IInv'
<1> DEFINE p == PodOf(c)
           row == [pods[p] EXCEPT !.receipt = IF @ = "live" THEN "removed" ELSE @]
<1>0. runs[c].pc # "idle" /\ UNCHANGED <<vlans, jobs, net>>
      /\ {"network", "fail", "fail_manual"} \subseteq Teardown
  BY DEF DeletePortGroups, At, Teardown
<1>1. pods[p].status \in Gone
  BY <1>0, PodAt DEF DeletePortGroups, At, Teardown
<1>2. CASE SetPod(p, row) /\ Goto(c, "network")
  <2>1. row \in PodRows /\ PodMay(pods[p], row) /\ row.vlan = pods[p].vlan
        /\ row.status = pods[p].status /\ row.status \in Gone
        /\ (row.status \in {"destroyed", "destroy_failed"} \/ HoldsVLAN(p))
    BY <1>0, <1>1, PodAt DEF PodRows, PodMay, Gone
  <2>2. runs[c].errs \in BOOLEAN
        /\ runs' = [runs EXCEPT ![c].pc = "network", ![c].errs = runs[c].errs]
    BY <1>0, <1>2, PodAt, GotoKeepsErrors DEF Phases
  <2> HIDE DEF row
  <2> QED BY <1>0, <1>2, <2>1, <2>2, TeardownMoveKeeps
<1>3. ASSUME pods' = pods, NEW pc \in {"fail", "fail_manual"},
             runs' = [runs EXCEPT ![c].pc = pc, ![c].errs = FALSE]
      PROVE  IInv'
  <2>1. pods[p] \in PodRows /\ SetPod(p, pods[p]) /\ PodMay(pods[p], pods[p]) /\ pc \in Teardown
        /\ (pods[p].status \in {"destroyed", "destroy_failed"} \/ HoldsVLAN(p))
    BY <1>0, <1>3, PodAt, SamePod
  <2> QED BY <1>0, <1>1, <1>3, <2>1, TeardownMoveKeeps
<1> QED BY <1>2, <1>3 DEF DeletePortGroups

\* failPodDestroy: whoever still writes it, the pod was gone before.
LEMMA WriteDestroyFailedKeeps ==
  ASSUME IInv, NEW c \in Tokens, WriteDestroyFailed(c)
  PROVE  IInv'
<1> DEFINE p == PodOf(c)
           manual == runs[c].pc = "fail_manual"
           row == [pods[p] EXCEPT !.status = "destroy_failed", !.manual = manual]
           out == IF manual THEN "manual" ELSE "error"
<1>0. runs[c].pc \in {"fail", "fail_manual"} /\ runs[c].pc # "idle"
      /\ UNCHANGED <<vlans, jobs, net>> /\ Settle(c, out) /\ out \in Outcomes
  BY DEF WriteDestroyFailed, Outcomes
<1>1. CASE SetPod(p, row)
  <2>1. row \in PodRows /\ PodMay(pods[p], row) /\ row.vlan = pods[p].vlan
        /\ row.status = "destroy_failed"
    BY ZenonT(60), <1>0, PodAt DEF PodRows, Statuses, PodMay, Gone, Teardown
  <2> HIDE DEF row, out
  <2> QED BY <1>0, <1>1, <2>1, PodSettleKeeps
<1>2. CASE pods' = pods
  <2> HIDE DEF out
  <2> QED BY <1>0, <1>2, SettleKeeps
<1> QED BY <1>1, <1>2 DEF WriteDestroyFailed

\* DestroyVM takes the last VM of the pod for good.
LEMMA DestroyVMKeeps ==
  ASSUME IInv, NEW c \in Tokens, DestroyVM(c)
  PROVE  IInv'
<1> DEFINE p == PodOf(c)
           row == [pods[p] EXCEPT !.vm = "deleted"]
           to == [runs[c] EXCEPT !.pc = "empty"]
<1>0. runs[c].pc # "idle"
  BY DEF DestroyVM, At
<1>1. row \in PodRows /\ PodMay(pods[p], row) /\ row.vlan = pods[p].vlan
      /\ row.status = pods[p].status
  BY <1>0, PodAt DEF PodRows, PodMay
<1>2. to \in RunRows /\ to.pod = PodOf(c) /\ to.kind = runs[c].kind
      /\ to.cleanup = runs[c].cleanup /\ to.pc = "empty" /\ to.next = runs[c].next
  BY <1>0, PodAt DEF RunRows, Phases, PodOf
<1>3. SetPod(p, row) /\ runs' = [runs EXCEPT ![c] = to] /\ UNCHANGED <<vlans, jobs, net>>
  BY <1>0, PodAt DEF DestroyVM, TypeOK, RunRows, Goto
<1>4. row.status \in {"destroyed", "destroy_failed"} \/ HoldsVLAN(p)
  BY <1>0, <1>1, PodAt
<1>5. to.next \in {"idle", "net", "portgroup", "clone", "poweron"}
  BY <1>0, <1>2, PodAt DEF RunOK
<1>6. to.pc \notin Teardown \cup {"activate"}
  BY <1>2 DEF Teardown
<1> HIDE DEF row, to
<1> QED BY <1>0, <1>1, <1>2, <1>3, <1>4, <1>5, <1>6, PodMoveKeeps

\* FinalizeNeverAppliedPodCreate and FinalizePodDestroy: pod and VLAN together.
LEMMA FinalizersKeep ==
  ASSUME IInv, NEW c \in Tokens, FinalizeNeverApplied(c) \/ FinalizeDestroy(c)
  PROVE  IInv'
<1> DEFINE p == PodOf(c)
<1>0. runs[c].pc # "idle" /\ runs[c].pc \in Teardown /\ UNCHANGED <<jobs, net>>
  BY DEF FinalizeNeverApplied, FinalizeDestroy, At, Teardown
<1>1. TypeOK /\ p \in Pods /\ pods[p] \in PodRows /\ pods[p].status \in Gone
      /\ pods[p].vlan # None /\ runs[c] \in RunRows /\ RunOK(c)
  BY <1>0, PodAt
<1>2. CASE UNCHANGED <<pods, vlans>> /\ Goto(c, "mark")
  <2> DEFINE to == [runs[c] EXCEPT !.pc = "mark"]
  <2>1. to \in RunRows /\ runs' = [runs EXCEPT ![c] = to] /\ net' \subseteq Vlans
    BY <1>0, <1>1, <1>2 DEF RunRows, Phases, TypeOK, Goto
  <2> QED BY <1>0, <1>1, <1>2, <2>1, MoveKeeps DEF PodOf, RunRows, RunOK
<1>3. ASSUME NEW row \in PodRows, SetPod(p, row), ReleaseVLAN(p), row.status = "destroyed",
             row.vlan = pods[p].vlan, row.vm = pods[p].vm,
             Goto(c, "mark") \/ Settle(c, "ok")
      PROVE  IInv'
  <2>1. PodMay(pods[p], row)
    BY <1>1, <1>3 DEF PodMay, Gone
  <2>2. /\ VLANFollowsPod' /\ NoGhostPod' /\ \A q \in Pods : PodMay(pods[q], pods'[q])
        /\ vlans' \in [Vlans -> Pods \cup {None}]
    BY <1>1, <1>3, <2>1, PodEndKeepsVLANs
  <2>3. pods' \in [Pods -> PodRows] /\ pods'[p] = row
    BY <1>1, <1>3, SetPodWrites
  <2>4. RunBecomes(c, runs'[c]) /\ RunOK(c)'
    <3>1. CASE Goto(c, "mark")
      <4> DEFINE to == [runs[c] EXCEPT !.pc = "mark"]
      <4>1. to \in RunRows /\ runs' = [runs EXCEPT ![c] = to]
        BY <1>1, <3>1 DEF RunRows, Phases, Goto, TypeOK
      <4>2. RunBecomes(c, to) /\ RunBecomes(c, runs'[c])
        BY <1>1, <4>1, RunWrites DEF RunBecomes
      <4>3. pods'[p].status \in Gone
        BY <1>3, <2>3 DEF Gone
      <4> QED BY <1>0, <1>1, <2>2, <4>1, <4>2, <4>3, MoveOK DEF PodOf, RunRows, RunOK
    <3>2. CASE Settle(c, "ok")
      BY <1>0, <2>2, <3>2, SettleOK DEF Outcomes
    <3> QED BY <1>3, <3>1, <3>2
  <2>5. TypeOK'
    BY <1>0, <1>1, <2>2, <2>3, <2>4 DEF TypeOK, RunBecomes
  <2> QED BY <1>0, <2>2, <2>4, <2>5, StepKeeps DEF RunBecomes
<1>4. CASE FinalizeNeverApplied(c)
  <2> DEFINE row == [pods[p] EXCEPT !.status = "destroyed", !.manual = FALSE]
  <2>1. row \in PodRows /\ row.status = "destroyed" /\ row.vlan = pods[p].vlan /\ row.vm = pods[p].vm
    BY <1>1 DEF PodRows, Statuses
  <2> QED BY <1>2, <1>3, <1>4, <2>1 DEF FinalizeNeverApplied
<1>5. CASE FinalizeDestroy(c)
  <2> DEFINE row == [pods[p] EXCEPT !.status = "destroyed"]
  <2>1. row \in PodRows /\ row.status = "destroyed" /\ row.vlan = pods[p].vlan /\ row.vm = pods[p].vm
    BY <1>1 DEF PodRows, Statuses
  <2> QED BY <1>3, <1>5, <2>1 DEF FinalizeDestroy
<1> QED BY <1>4, <1>5

-----------------------------------------------------------------------------
(* Steps that write a job row *)

\* A job that stays or ends, and keeps its cleanup mark unless the pod is gone.
LEMMA JobRowKeeps ==
  ASSUME IInv, NEW p \in Pods, NEW k \in Kinds,
         NEW row \in JobRows, SetJob(p, k, row), PodMay(pods[p], pods'[p]),
         pods[p].status # "absent",
         row.status \in Open => jobs[p][k].status \in Open,
         k = "create" /\ row.status \in Open /\ jobs[p][k].cleanup
            => row.cleanup \/ pods'[p].status \in Gone,
         k = "vm" /\ row.status \in Open => row.deletes = jobs[p][k].deletes
  PROVE  JobOK(p)'
<1>1. TypeOK /\ JobOK(p) /\ {"create", "destroy", "vm"} \subseteq Kinds
  BY IInvParts DEF Kinds
<1>2. jobs'[p][k] = row /\ \A j \in Kinds : j # k => jobs'[p][j] = jobs[p][j]
  BY <1>1, SetJobWrites
<1>3. pods'[p].status # "absent" /\ pods'[p].vlan # None
  BY DEF PodMay
<1>4. DestroyIntent(p)' => DestroyIntent(p)
  BY <1>1, <1>2 DEF DestroyIntent
<1>5. DestroyIntent(p) /\ jobs'[p]["create"].status \in Open
        => jobs'[p]["create"].cleanup \/ pods'[p].status \in Gone
  BY <1>1, <1>2 DEF JobOK, PodMay
<1>6. DestroyIntent(p) /\ jobs'[p]["vm"].status \in Open
        => jobs'[p]["vm"].deletes /\ pods'[p].vm = "deleted"
  BY <1>1, <1>2 DEF JobOK, PodMay
<1> QED BY <1>3, <1>4, <1>5, <1>6 DEF JobOK

\* A step that writes one job, perhaps its pod's row and perhaps an execution.
LEMMA JobStepKeeps ==
  ASSUME IInv, NEW c, NEW p \in Pods, NEW k \in Kinds, NEW row \in JobRows, SetJob(p, k, row),
         pods' \in [Pods -> PodRows], vlans' \in [Vlans -> Pods \cup {None}],
         net' \subseteq Vlans, runs' \in [Tokens -> RunRows],
         VLANFollowsPod', NoGhostPod', \A q \in Pods : PodMay(pods[q], pods'[q]),
         JobOK(p)',
         k = "create" => \/ row.owner \in {c, None}
                         \/ ~row.cleanup
                         \/ pods'[p].status \in Gone,
         \A d \in Tokens : d # c => runs'[d] = runs[d],
         c \in Tokens => RunOK(c)'
  PROVE  IInv'
<1>1. TypeOK BY IInvParts
<1>2. /\ jobs' \in [Pods -> [Kinds -> JobRows]] /\ jobs'[p][k] = row
      /\ \A q \in Pods : q # p => jobs'[q] = jobs[q]
      /\ \A q \in Pods, j \in Kinds : j # k => jobs'[q][j] = jobs[q][j]
  BY <1>1, SetJobWrites
<1>3. TypeOK'
  BY <1>2 DEF TypeOK
<1>4. \A q \in Pods : jobs'[q] = jobs[q] \/ JobOK(q)'
  BY <1>2
<1>5. \A q \in Pods : \/ jobs'[q]["create"] = jobs[q]["create"]
                      \/ jobs'[q]["create"].owner \in {c, None}
                      \/ ~jobs'[q]["create"].cleanup
                      \/ pods'[q].status \in Gone
  BY <1>2 DEF Kinds
<1> QED BY <1>3, <1>4, <1>5, StepKeeps

\* The same for a step that leaves pods and VLANs alone.
LEMMA JobOnlyKeeps ==
  ASSUME IInv, NEW c, NEW p \in Pods, NEW k \in Kinds, NEW row \in JobRows, SetJob(p, k, row),
         UNCHANGED <<pods, vlans, net>>, runs' \in [Tokens -> RunRows], JobOK(p)',
         k = "create" => \/ row.owner \in {c, None}
                         \/ ~row.cleanup
                         \/ pods'[p].status \in Gone,
         \A d \in Tokens : d # c => runs'[d] = runs[d],
         c \in Tokens => RunOK(c)'
  PROVE  IInv'
<1>1. VLANFollowsPod' /\ NoGhostPod' /\ \A q \in Pods : PodMay(pods[q], pods'[q])
  BY PodsStay
<1>2. pods' \in [Pods -> PodRows] /\ vlans' \in [Vlans -> Pods \cup {None}] /\ net' \subseteq Vlans
  BY IInvParts DEF TypeOK
<1> QED BY <1>1, <1>2, JobStepKeeps

\* The job an execution works on.
LEMMA JobAt ==
  ASSUME IInv, NEW c \in Tokens, runs[c].pc # "idle"
  PROVE  runs[c].kind \in Kinds /\ JobOf(c) \in JobRows
  BY PodAt, RowsOf DEF RunRows, JobOf

\* The pod and the job an execution works on, by name.
LEMMA NameOf ==
  ASSUME IInv, NEW c \in Tokens, runs[c].pc # "idle"
  PROVE  \E p \in Pods, k \in Kinds :
            /\ p = PodOf(c) /\ k = runs[c].kind /\ JobOf(c) = jobs[p][k] /\ jobs[p][k] \in JobRows
            /\ pods[p] \in PodRows /\ pods[p].status # "absent" /\ pods[p].vlan # None
            /\ (runs[c].pc \in Teardown => pods[p].status \in Gone)
            /\ (Owns(c) => jobs[p][k].owner = c /\ jobs[p][k].status = "in_progress")
  BY PodAt, JobAt DEF JobOf, Owns

\* A rollback step is saved under the claim.
LEMMA RecordStepKeeps ==
  ASSUME IInv, NEW c \in Tokens, RecordStep(c)
  PROVE  IInv'
<1>0. runs[c].pc # "idle" /\ runs[c].kind = "create" /\ Owns(c) /\ UNCHANGED <<pods, vlans, net>>
  BY DEF RecordStep, At
<1>1. TypeOK /\ RunOK(c) /\ runs[c] \in RunRows
  BY <1>0, PodAt
<1>2. PICK p \in Pods : /\ p = PodOf(c) /\ JobOf(c) = jobs[p]["create"] /\ jobs[p]["create"] \in JobRows
                        /\ pods[p].status # "absent" /\ jobs[p]["create"].owner = c
  BY <1>0, NameOf
<1> DEFINE row == [jobs[p]["create"] EXCEPT !.steps = TRUE]
           to == [runs[c] EXCEPT !.pc = "check", !.next = "portgroup", !.steps = TRUE]
<1>3. row \in JobRows /\ row.status = jobs[p]["create"].status
      /\ row.cleanup = jobs[p]["create"].cleanup /\ row.owner = c
      /\ SetJob(p, "create", row) /\ "create" \in Kinds
  BY <1>2 DEF JobRows, Kinds, RecordStep
<1>4. to \in RunRows /\ to.pc = "check" /\ to.next = "portgroup" /\ to.pod = p
      /\ to.kind = runs[c].kind /\ to.cleanup = runs[c].cleanup
  BY <1>1, <1>2 DEF RunRows, Phases, PodOf
<1>5. runs' = [runs EXCEPT ![c] = to]
  BY <1>1 DEF RecordStep, TypeOK, RunRows
<1> HIDE DEF row, to
<1>6. RunBecomes(c, to)
  BY <1>1, <1>4, <1>5, RunWrites DEF RunBecomes
<1>7. PodMay(pods[p], pods'[p])
  BY <1>0, PodsStay
<1>8. jobs'[p]["create"] = row
  BY <1>1, <1>3, SetJobWrites
<1>9. JobOK(p)'
  BY <1>2, <1>3, <1>7, JobRowKeeps
<1>10. RunOK(c)'
  <2>1. MarkOK(c)'
    BY <1>0, <1>1, <1>2, <1>3, <1>4, <1>6, <1>8 DEF RunBecomes, RunOK, MarkOK, PodOf, JobOf, Owns
  <2> QED BY <1>0, <1>1, <1>2, <1>4, <1>6, <2>1 DEF RunBecomes, RunOK, PodOf, Teardown
<1>11. runs' \in [Tokens -> RunRows] /\ \A d \in Tokens : d # c => runs'[d] = runs[d]
  BY <1>6 DEF RunBecomes
<1> QED BY <1>0, <1>3, <1>9, <1>10, <1>11, JobOnlyKeeps

\* Record cannot save a step and hands it over: the job it reopens is one that
\* compensates, whether or not a destroy job waits for the pod.
LEMMA HandoffStepKeeps ==
  ASSUME IInv, NEW c \in Tokens, HandoffStep(c)
  PROVE  IInv'
<1>0. runs[c].pc # "idle" /\ UNCHANGED <<pods, vlans, net>>
  BY DEF HandoffStep
<1>1. TypeOK /\ RunOK(c) /\ runs[c] \in RunRows
  BY <1>0, PodAt
<1>2. PICK p \in Pods : /\ p = PodOf(c) /\ jobs[p]["create"] \in JobRows /\ pods[p].status # "absent"
                        /\ pods[p].vlan # None /\ JobOf(c) = jobs[p]["create"]
  BY <1>0, NameOf DEF HandoffStep, JobOf
<1>3. \A q \in Pods : PodMay(pods[q], pods'[q])
  BY <1>0, PodsStay
<1>4. \/ jobs' = jobs
      \/ SetJob(p, "create", [Requeued(jobs[p]["create"]) EXCEPT !.cleanup = TRUE, !.steps = TRUE])
  BY <1>2 DEF HandoffStep
<1> DEFINE row == [Requeued(jobs[p]["create"]) EXCEPT !.cleanup = TRUE, !.steps = TRUE]
           to == [runs[c] EXCEPT !.pc = "begin", !.steps = TRUE, !.allow = TRUE]
<1>5. row \in JobRows /\ row.owner = None /\ row.cleanup /\ "create" \in Kinds
  BY <1>2 DEF JobRows, Kinds, Requeued, Open
<1>6. jobs' = jobs \/ jobs'[p]["create"] = row
  BY <1>1, <1>4, <1>5, SetJobWrites
<1> HIDE DEF row
<1>7. \/ jobs'[p]["create"] = jobs[p]["create"]
      \/ jobs'[p]["create"].owner # c
  BY <1>5, <1>6
<1>8. RunBecomes(c, runs'[c]) /\ RunOK(c)'
  <2>1. CASE runs' = [runs EXCEPT ![c].pc = "begin", ![c].steps = TRUE, ![c].allow = TRUE]
    <3>1. to \in RunRows /\ to.pc = "begin" /\ to.next = runs[c].next /\ to.pod = p
          /\ to.kind = runs[c].kind /\ to.cleanup = runs[c].cleanup
      BY <1>1, <1>2 DEF RunRows, Phases, PodOf
    <3>2. runs' = [runs EXCEPT ![c] = to]
      BY <1>1, <2>1 DEF TypeOK, RunRows
    <3> HIDE DEF to
    <3>3. RunBecomes(c, to) /\ RunBecomes(c, runs'[c])
      BY <1>1, <3>1, <3>2, RunWrites DEF RunBecomes
    <3> QED BY <1>0, <1>1, <1>2, <1>3, <1>7, <3>1, <3>3, MoveOK DEF RunOK, Teardown
  <2>2. ASSUME NEW out \in Outcomes, Settle(c, out) PROVE RunBecomes(c, runs'[c]) /\ RunOK(c)'
    BY <1>0, <1>2, <1>3, <1>7, <2>2, SettleOK
  <2> QED BY <2>1, <2>2 DEF HandoffStep, Outcomes
<1>9. CASE jobs' = jobs
  <2>1. net' \subseteq Vlans
    BY <1>0, <1>1 DEF TypeOK
  <2> QED BY <1>0, <1>8, <1>9, <2>1, RunOnlyKeeps
<1>10. CASE SetJob(p, "create", row)
  <2>1. /\ jobs'[p]["create"] = row
        /\ jobs'[p]["vm"] = jobs[p]["vm"] /\ jobs'[p]["destroy"] = jobs[p]["destroy"]
    BY <1>1, <1>5, <1>10, SetJobWrites DEF Kinds
  <2>2. JobOK(p)'
    BY <1>0, <1>2, <1>5, <2>1, IInvParts DEF JobOK, DestroyIntent
  <2>3. runs' \in [Tokens -> RunRows] /\ \A d \in Tokens : d # c => runs'[d] = runs[d]
    BY <1>8 DEF RunBecomes
  <2> QED BY <1>0, <1>5, <1>8, <1>10, <2>2, <2>3, JobOnlyKeeps
<1> QED BY <1>4, <1>9, <1>10 DEF row

\* BeginPodCreateCleanup stops the pod and marks the job in one transaction.
LEMMA BeginCleanupKeeps ==
  ASSUME IInv, NEW c \in Tokens, BeginCleanup(c)
  PROVE  IInv'
<1>0. runs[c].pc # "idle" /\ runs[c].kind = "create" /\ Owns(c) /\ UNCHANGED <<vlans, net>>
      /\ MayBegin(PodOf(c), runs[c].allow)
  BY DEF BeginCleanup, At
<1>1. TypeOK /\ RunOK(c) /\ runs[c] \in RunRows /\ net' \subseteq Vlans
      /\ vlans' \in [Vlans -> Pods \cup {None}]
  BY <1>0, PodAt DEF TypeOK
<1>2. PICK p \in Pods : /\ p = PodOf(c) /\ JobOf(c) = jobs[p]["create"] /\ jobs[p]["create"] \in JobRows
                        /\ pods[p].status # "absent" /\ jobs[p]["create"].owner = c
                        /\ pods[p] \in PodRows /\ pods[p].vlan # None
  BY <1>0, NameOf
<1> DEFINE pod == [pods[p] EXCEPT !.status = IF @ = "provisioning" THEN "error" ELSE @]
           row == [jobs[p]["create"] EXCEPT !.cleanup = TRUE]
           to == [runs[c] EXCEPT !.pc = "undo", !.allow = FALSE]
<1>3. pods[p].status \in Gone \cup {"provisioning"}
  BY <1>0, <1>2 DEF MayBegin
<1>4. pod \in PodRows /\ pod.status \in Gone /\ PodMay(pods[p], pod) /\ pod.vlan = pods[p].vlan
      /\ (pod.status = pods[p].status \/ (pod.status = "error" /\ pods[p].status = "provisioning"))
  <2>1. CASE pods[p].status = "provisioning"
    BY <1>2, <2>1 DEF PodRows, Statuses, PodMay, Gone
  <2>2. CASE pods[p].status \in Gone
    <3>1. pod = pods[p]
      BY <1>2, <2>2 DEF PodRows, Gone
    <3>2. PodMay(pods[p], pods[p])
      BY <1>2, <2>2 DEF PodMay, Gone
    <3> HIDE DEF pod
    <3> QED BY <1>2, <2>2, <3>1, <3>2
  <2> QED BY <1>3, <2>1, <2>2
<1>5. row \in JobRows /\ row.status = jobs[p]["create"].status /\ row.cleanup
      /\ SetJob(p, "create", row) /\ "create" \in Kinds /\ row.owner = c
  BY <1>2 DEF JobRows, Kinds, BeginCleanup
<1>6. to \in RunRows /\ to.pc = "undo" /\ to.next = runs[c].next /\ to.pod = p
      /\ to.kind = runs[c].kind /\ to.cleanup = runs[c].cleanup
  BY <1>1, <1>2 DEF RunRows, Phases, PodOf
<1>7. runs' = [runs EXCEPT ![c] = to] /\ SetPod(p, pod)
  <2>1. runs' = [runs EXCEPT ![c] = to]
    BY <1>1 DEF BeginCleanup, TypeOK, RunRows
  <2>2. SetPod(p, pod)
    BY <1>2 DEF BeginCleanup
  <2> QED BY <2>1, <2>2
<1> HIDE DEF pod, row, to
<1>8. RunBecomes(c, to)
  BY <1>1, <1>6, <1>7, RunWrites DEF RunBecomes
<1>9. pods' \in [Pods -> PodRows] /\ pods'[p] = pod
  BY <1>1, <1>4, <1>7, SetPodWrites
<1>10. VLANFollowsPod' /\ NoGhostPod' /\ \A q \in Pods : PodMay(pods[q], pods'[q])
  <2>1. pod.status \in {"absent", "destroyed", "destroy_failed"} \/ HoldsVLAN(p)
    BY <1>0, <1>2, <1>4, PodAt
  <2>2. pod.status \notin {"absent", "destroyed"} \/ pod.status = pods[p].status
    BY <1>4
  <2> QED BY <1>0, <1>4, <1>7, <2>1, <2>2, PodWriteKeepsVLANs
<1>11. JobOK(p)'
  BY <1>2, <1>5, <1>9, <1>10, JobRowKeeps
<1>12. RunOK(c)'
  BY <1>0, <1>1, <1>2, <1>4, <1>6, <1>8, <1>9, <1>10, MoveOK DEF RunOK
<1>13. runs' \in [Tokens -> RunRows] /\ \A d \in Tokens : d # c => runs'[d] = runs[d]
  BY <1>8 DEF RunBecomes
<1> QED BY <1>1, <1>5, <1>9, <1>10, <1>11, <1>12, <1>13, JobStepKeeps

\* rb.Rollback on a pod that BeginPodCreateCleanup has stopped.
LEMMA RollbackKeeps ==
  ASSUME IInv, NEW c \in Tokens, NEW undone, Rollback(c, undone)
  PROVE  IInv'
<1>0. runs[c].pc = "undo" /\ runs[c].kind = "create" /\ Owns(c) /\ UNCHANGED vlans
      /\ Undone(PodOf(c), undone)
  BY DEF Rollback, At
<1>1. TypeOK /\ RunOK(c) /\ runs[c] \in RunRows /\ vlans' \in [Vlans -> Pods \cup {None}]
      /\ "create" \in Kinds
  BY <1>0, PodAt DEF TypeOK, Kinds
<1>2. PICK p \in Pods : /\ p = PodOf(c) /\ JobOf(c) = jobs[p]["create"] /\ jobs[p]["create"] \in JobRows
                        /\ pods[p].status # "absent" /\ jobs[p]["create"].owner = c
                        /\ pods[p] \in PodRows /\ pods[p].vlan # None /\ pods[p].status \in Gone
  BY <1>0, NameOf DEF Teardown
<1> DEFINE pod == [pods[p] EXCEPT
                     !.vm = IF "vm" \in undone /\ @ = "present" THEN "none" ELSE @,
                     !.receipt = IF "portgroup" \in undone /\ @ = "live" THEN "removed" ELSE @]
           row == [jobs[p]["create"] EXCEPT !.steps = FALSE]
           to == [runs[c] EXCEPT !.pc = "final", !.steps = FALSE]
<1>3. pod \in PodRows /\ pod.status = pods[p].status /\ PodMay(pods[p], pod) /\ pod.vlan = pods[p].vlan
  BY ZenonT(60), <1>2 DEF PodRows, PodMay, Gone
<1>4. SetPod(p, pod) /\ net' \subseteq Vlans
  BY <1>0, <1>1, <1>2 DEF Undone, TypeOK
<1> HIDE DEF pod
<1>5. pods' \in [Pods -> PodRows] /\ pods'[p] = pod
  BY <1>1, <1>3, <1>4, SetPodWrites
<1>6. VLANFollowsPod' /\ NoGhostPod' /\ \A q \in Pods : PodMay(pods[q], pods'[q])
  <2>1. pod.status \in {"absent", "destroyed", "destroy_failed"} \/ HoldsVLAN(p)
    BY <1>0, <1>2, <1>3, PodAt
  <2> QED BY <1>0, <1>3, <1>4, <2>1, PodWriteKeepsVLANs
<1>7. CASE jobs' = jobs /\ Settle(c, "comp_retry")
  <2>1. RunBecomes(c, runs'[c]) /\ RunOK(c)'
    BY <1>0, <1>6, <1>7, SettleOK DEF Outcomes
  <2>2. TypeOK'
    BY <1>1, <1>4, <1>5, <1>7, <2>1 DEF TypeOK, RunBecomes
  <2> QED BY <1>6, <1>7, <2>1, <2>2, StepKeeps DEF RunBecomes
<1>8. CASE SetJob(p, "create", row)
           /\ runs' = [runs EXCEPT ![c].pc = "final", ![c].steps = FALSE]
  <2>1. row \in JobRows /\ row.status = jobs[p]["create"].status /\ row.owner = c
    BY <1>2 DEF JobRows
  <2>2. to \in RunRows /\ to.pc = "final" /\ to.next = runs[c].next /\ to.pod = p
        /\ to.kind = runs[c].kind /\ to.cleanup = runs[c].cleanup
    BY <1>1, <1>2 DEF RunRows, Phases, PodOf
  <2>3. runs' = [runs EXCEPT ![c] = to]
    BY <1>1, <1>8 DEF TypeOK, RunRows
  <2> HIDE DEF row, to
  <2>4. RunBecomes(c, to)
    BY <1>1, <2>2, <2>3, RunWrites DEF RunBecomes
  <2>5. pods'[p].status \in Gone
    BY <1>2, <1>3, <1>5
  <2>6. JobOK(p)'
    BY <1>1, <1>2, <1>6, <1>8, <2>1, <2>5, JobRowKeeps
  <2>7. RunOK(c)'
    BY <1>0, <1>1, <1>2, <1>6, <2>2, <2>4, <2>5, MoveOK DEF RunOK
  <2>8. runs' \in [Tokens -> RunRows] /\ \A d \in Tokens : d # c => runs'[d] = runs[d]
    BY <2>4 DEF RunBecomes
  <2> QED BY <1>1, <1>4, <1>5, <1>6, <1>8, <2>1, <2>5, <2>6, <2>7, <2>8, JobStepKeeps
<1> QED BY <1>2, <1>7, <1>8 DEF Rollback

\* The cleanup mark is taken off the job of a pod that is gone.
LEMMA AbandonCloneKeeps ==
  ASSUME IInv, NEW c \in Tokens, AbandonClone(c)
  PROVE  IInv'
<1>0. runs[c].pc = "undo" /\ runs[c].kind = "create" /\ Owns(c) /\ UNCHANGED <<pods, vlans, runs, net>>
  BY DEF AbandonClone, At
<1>1. TypeOK /\ RunOK(c) /\ "create" \in Kinds /\ runs' \in [Tokens -> RunRows]
  BY <1>0, PodAt DEF TypeOK, Kinds
<1>2. PICK p \in Pods : /\ p = PodOf(c) /\ JobOf(c) = jobs[p]["create"] /\ jobs[p]["create"] \in JobRows
                        /\ pods[p].status # "absent" /\ pods[p].status \in Gone
  BY <1>0, NameOf DEF Teardown
<1> DEFINE row == [jobs[p]["create"] EXCEPT !.cleanup = FALSE]
<1>3. row \in JobRows /\ row.status = jobs[p]["create"].status /\ ~row.cleanup
      /\ SetJob(p, "create", row)
  BY <1>2 DEF JobRows, AbandonClone
<1> HIDE DEF row
<1>4. \A q \in Pods : PodMay(pods[q], pods'[q])
  BY <1>0, PodsStay
<1>5. JobOK(p)'
  BY <1>0, <1>1, <1>2, <1>3, <1>4, JobRowKeeps
<1>6. RunOK(c)'
  BY <1>0, <1>2, <1>4, RunStays
<1> QED BY <1>0, <1>1, <1>3, <1>5, <1>6, JobOnlyKeeps

\* What settling writes is a row of the owned job: it ends or waits again, and
\* an ordinary retry drops the cleanup mark only after the pod was stopped.
LEMMA EndRunKeeps ==
  ASSUME IInv, NEW c \in Tokens, Settling(c), NEW p \in Pods, NEW k \in Kinds,
         p = PodOf(c), k = runs[c].kind, NEW row \in JobRows, EndRun(c, row),
         k = "create" => row.owner = None,
         k = "create" /\ row.status \in Open /\ jobs[p][k].cleanup
            => row.cleanup \/ pods[p].status \in Gone,
         k = "vm" /\ row.status \in Open => row.deletes = jobs[p][k].deletes
  PROVE  IInv'
<1>0. runs[c].pc # "idle" /\ Owns(c) /\ UNCHANGED <<pods, vlans, net>> /\ SetJob(p, k, row)
      /\ runs' = [runs EXCEPT ![c] = IdleRun]
  BY DEF Settling, EndRun
<1>1. TypeOK /\ pods[p].status # "absent" /\ jobs[p][k].status \in Open
  BY <1>0, PodAt DEF Owns, JobOf, Open
<1>2. RunBecomes(c, IdleRun)
  BY <1>0, <1>1, RowTypes, RunWrites DEF RunBecomes
<1>3. RunOK(c)'
  BY <1>2 DEF RunBecomes, RunOK, MarkOK, IdleRun, Teardown
<1>4. PodMay(pods[p], pods'[p]) /\ pods'[p] = pods[p]
  BY <1>0, PodsStay
<1>5. JobOK(p)'
  BY <1>0, <1>1, <1>4, JobRowKeeps
<1>6. runs' \in [Tokens -> RunRows] /\ \A d \in Tokens : d # c => runs'[d] = runs[d]
  BY <1>2 DEF RunBecomes
<1> QED BY <1>0, <1>3, <1>5, <1>6, JobOnlyKeeps

\* processJobLifecycle after the body.
LEMMA SettlementsKeep ==
  ASSUME IInv, NEW c \in Tokens,
         CompleteJob(c) \/ RetryJob(c) \/ RetryCleanup(c) \/ FailJob(c)
  PROVE  IInv'
<1>0. runs[c].pc = "settle" /\ Owns(c) /\ Settling(c)
  BY DEF CompleteJob, RetryJob, RetryCleanup, FailJob, Settling
<1>1. PICK p \in Pods, k \in Kinds :
         p = PodOf(c) /\ k = runs[c].kind /\ JobOf(c) = jobs[p][k] /\ jobs[p][k] \in JobRows
  BY <1>0, NameOf
<1>2. RunOK(c)
  BY <1>0, PodAt
<1>3. CASE CompleteJob(c)
  <2> DEFINE row == EndedAs(jobs[p][k], "completed")
  <2>1. row \in JobRows /\ row.status \notin Open /\ row.owner = None
    BY ZenonT(60), <1>1 DEF EndedAs, NoJob, JobRows, Terminal, Open
  <2>2. EndRun(c, row)
    BY <1>1, <1>3 DEF CompleteJob
  <2> HIDE DEF row
  <2> QED BY <1>0, <1>1, <2>1, <2>2, EndRunKeeps
<1>4. CASE FailJob(c)
  <2> DEFINE manual == runs[c].out = "manual" /\ runs[c].kind = "destroy"
             row == [EndedAs(jobs[p][k], "failed") EXCEPT !.manual = manual]
  <2>1. EndRun(c, row) /\ manual \in BOOLEAN
    BY <1>1, <1>4 DEF FailJob
  <2> HIDE DEF manual
  <2>2. row \in JobRows /\ row.status \notin Open /\ row.owner = None
    BY ZenonT(60), <1>1, <2>1 DEF EndedAs, NoJob, JobRows, Terminal, Open
  <2> HIDE DEF row
  <2> QED BY <1>0, <1>1, <2>1, <2>2, EndRunKeeps
<1>5. CASE RetryJob(c)
  <2> DEFINE row == [Requeued(jobs[p][k]) EXCEPT !.retried = runs[c].kind = "create", !.cleanup = FALSE]
  <2>1. row \in JobRows /\ row.owner = None /\ row.deletes = jobs[p][k].deletes
    BY ZenonT(60), <1>1 DEF Requeued, JobRows, Terminal, Open
  <2>2. EndRun(c, row) /\ ~runs[c].cleanup
    BY <1>1, <1>5 DEF RetryJob, CleanupMode
  <2>3. k = "create" /\ jobs[p][k].cleanup => pods[p].status \in Gone
    BY <1>0, <1>1, <1>2, <2>2 DEF RunOK, MarkOK
  <2> HIDE DEF row
  <2> QED BY <1>0, <1>1, <2>1, <2>2, <2>3, EndRunKeeps
<1>6. CASE RetryCleanup(c)
  <2> DEFINE row == [Requeued(jobs[p][k]) EXCEPT !.retried = TRUE, !.cleanup = TRUE]
  <2>1. row \in JobRows /\ row.owner = None /\ row.deletes = jobs[p][k].deletes /\ row.cleanup
    BY <1>1 DEF Requeued, JobRows, Terminal, Open
  <2>2. EndRun(c, row)
    BY <1>1, <1>6 DEF RetryCleanup
  <2> HIDE DEF row
  <2> QED BY <1>0, <1>1, <2>1, <2>2, EndRunKeeps
<1> QED BY <1>3, <1>4, <1>5, <1>6

\* ClaimJob starts an execution with the cleanup mark it reads.
LEMMA ClaimJobKeeps ==
  ASSUME IInv, NEW c \in Tokens, NEW p \in Pods, NEW k \in Kinds, ClaimJob(c, p, k)
  PROVE  IInv'
<1> DEFINE row == [jobs[p][k] EXCEPT !.status = "in_progress", !.owner = c]
           to == [IdleRun EXCEPT !.pc = FirstPhase(k, jobs[p][k].cleanup),
                    !.pod = p, !.kind = k, !.cleanup = jobs[p][k].cleanup,
                    !.steps = jobs[p][k].steps, !.allow = CleanupCanTransition(jobs[p][k])]
<1>0. jobs[p][k].status = "pending" /\ SetJob(p, k, row) /\ runs' = [runs EXCEPT ![c] = to]
      /\ UNCHANGED <<pods, vlans, net>>
  BY DEF ClaimJob
<1>1. TypeOK /\ jobs[p][k] \in JobRows /\ pods[p].status # "absent"
  BY <1>0, IInvParts, RowsOf DEF JobOK
<1>2. row \in JobRows /\ row.status \in Open /\ jobs[p][k].status \in Open /\ row.owner = c
      /\ row.cleanup = jobs[p][k].cleanup /\ row.deletes = jobs[p][k].deletes
  BY <1>0, <1>1 DEF JobRows, Open
<1>3. FirstPhase(k, jobs[p][k].cleanup) \in {"begin", "start", "prepare", "vmop"}
  BY DEF FirstPhase, Kinds
<1>4. CleanupCanTransition(jobs[p][k]) \in BOOLEAN
  BY DEF CleanupCanTransition
<1>5. jobs[p][k].cleanup \in BOOLEAN /\ jobs[p][k].steps \in BOOLEAN
  BY <1>1 DEF JobRows
<1>6. to \in RunRows /\ to.pc \in {"begin", "start", "prepare", "vmop"} /\ to.pod = p
      /\ to.next = "idle" /\ to.kind = k /\ to.cleanup = jobs[p][k].cleanup
  BY ZenonT(60), <1>3, <1>4, <1>5 DEF RunRows, IdleRun, Phases, Outcomes
<1> HIDE DEF row, to
<1>7. RunBecomes(c, to)
  BY <1>0, <1>1, <1>6, RunWrites DEF RunBecomes
<1>8. PodMay(pods[p], pods'[p]) /\ pods'[p] = pods[p]
  BY <1>0, PodsStay
<1>9. jobs'[p][k] = row
  BY <1>0, <1>1, <1>2, SetJobWrites
<1>10. JobOK(p)'
  BY <1>0, <1>1, <1>2, <1>8, JobRowKeeps
<1>11. RunOK(c)'
  BY <1>1, <1>2, <1>6, <1>7, <1>8, <1>9 DEF RunBecomes, RunOK, MarkOK, PodOf, JobOf, Teardown
<1>12. runs' \in [Tokens -> RunRows] /\ \A d \in Tokens : d # c => runs'[d] = runs[d]
  BY <1>7 DEF RunBecomes
<1> QED BY <1>0, <1>2, <1>10, <1>11, <1>12, JobOnlyKeeps

\* A lease runs out: the row waits again and says what it said.
LEMMA RecoverJobKeeps ==
  ASSUME IInv, NEW p \in Pods, NEW k \in Kinds, RecoverJob(p, k)
  PROVE  IInv'
<1> DEFINE row == Requeued(jobs[p][k])
<1>0. jobs[p][k].status = "in_progress" /\ SetJob(p, k, row) /\ UNCHANGED <<pods, vlans, runs, net>>
  BY DEF RecoverJob
<1>1. TypeOK /\ jobs[p][k] \in JobRows /\ pods[p].status # "absent" /\ runs' \in [Tokens -> RunRows]
  BY <1>0, IInvParts, RowsOf DEF JobOK, TypeOK
<1>2. row \in JobRows /\ jobs[p][k].status \in Open /\ row.owner = None
      /\ row.cleanup = jobs[p][k].cleanup /\ row.deletes = jobs[p][k].deletes
  BY <1>0, <1>1 DEF JobRows, Open, Requeued
<1> HIDE DEF row
<1>3. PodMay(pods[p], pods'[p])
  BY <1>0, PodsStay
<1>4. JobOK(p)'
  BY <1>0, <1>1, <1>2, <1>3, JobRowKeeps
<1> QED BY <1>0, <1>1, <1>2, <1>4, JobOnlyKeeps

-----------------------------------------------------------------------------
(* Producers *)

\* createPodDestroyJob: intent appears only while no mutator is open, but for the
\* vm_destroy job that emptied the pod.
LEMMA EnqueueKeepsJobs ==
  ASSUME IInv, NEW p \in Pods, NEW need \in {"always", "active", "empty", "failed"}, NEW but,
         EnqueuesDestroy(p, need, but), QueueDestroy(p), PodMay(pods[p], pods'[p]),
         pods'[p].vm = pods[p].vm
  PROVE  /\ JobOK(p)'
         /\ \E row \in JobRows : SetJob(p, "destroy", row)
<1> DEFINE row == [Requeued(jobs[p]["destroy"]) EXCEPT !.retried = FALSE]
<1>1. TypeOK /\ JobOK(p) /\ jobs[p]["destroy"] \in JobRows /\ {"create", "destroy", "vm"} \subseteq Kinds
  BY IInvParts, RowsOf DEF Kinds
<1>2. row \in JobRows /\ SetJob(p, "destroy", row)
  BY <1>1 DEF QueueDestroy, Requeued, JobRows, Open
<1>3. jobs'[p]["create"] = jobs[p]["create"] /\ jobs'[p]["vm"] = jobs[p]["vm"]
  BY <1>1, <1>2, SetJobWrites
<1>4. pods[p].status # "absent" /\ jobs[p]["create"].status \notin Open
  BY DEF EnqueuesDestroy, CanInsert, CanRestart, NoMutator
<1>5. jobs[p]["vm"].status \in Open => jobs[p]["vm"].deletes /\ pods[p].vm = "deleted"
  BY DEF EnqueuesDestroy, NoMutator
<1>6. pods'[p].status # "absent" /\ pods'[p].vlan # None
  BY <1>4 DEF PodMay
<1>7. JobOK(p)'
  BY <1>3, <1>4, <1>5, <1>6 DEF JobOK
<1> QED BY <1>2, <1>7

\* The last VM is gone: its vm_destroy job asks for the pod's destruction.
LEMMA DestroyEmptyPodKeeps ==
  ASSUME IInv, NEW c \in Tokens, DestroyEmptyPod(c)
  PROVE  IInv'
<1>0. runs[c].pc # "idle" /\ UNCHANGED <<pods, vlans, net>>
  BY DEF DestroyEmptyPod, At
<1>1. PICK out \in Outcomes : Settle(c, out)
  BY DEF DestroyEmptyPod, Outcomes
<1>2. PICK p \in Pods : p = PodOf(c)
  BY <1>0, PodAt
<1>3. CASE jobs' = jobs
  BY <1>0, <1>1, <1>3, SettleKeeps
<1>4. CASE EnqueuesDestroy(p, "empty", c) /\ QueueDestroy(p)
  <2>1. \A q \in Pods : PodMay(pods[q], pods'[q])
    BY <1>0, PodsStay
  <2>2. JobOK(p)' /\ \E row \in JobRows : SetJob(p, "destroy", row)
    BY <1>0, <1>4, <2>1, EnqueueKeepsJobs
  <2>3. PICK row \in JobRows : SetJob(p, "destroy", row)
    BY <2>2
  <2>4. TypeOK /\ "destroy" \in Kinds /\ "create" \in Kinds
    BY IInvParts DEF Kinds
  <2>5. jobs'[p]["create"] = jobs[p]["create"]
    BY <2>3, <2>4, SetJobWrites
  <2>6. RunBecomes(c, runs'[c]) /\ RunOK(c)'
    BY <1>0, <1>1, <1>2, <2>1, <2>5, SettleOK
  <2> QED BY <1>0, <2>2, <2>3, <2>4, <2>6, JobOnlyKeeps DEF RunBecomes
<1> QED BY <1>2, <1>3, <1>4 DEF DestroyEmptyPod

\* The expiration and suspension sweeps.
LEMMA ExpirePodKeeps ==
  ASSUME IInv, NEW p \in Pods, ExpirePod(p)
  PROVE  IInv'
<1>0. UNCHANGED <<pods, vlans, runs, net>> /\ EnqueuesDestroy(p, "active", None) /\ QueueDestroy(p)
  BY DEF ExpirePod
<1>1. PodMay(pods[p], pods'[p])
  BY <1>0, PodsStay
<1>2. JobOK(p)' /\ \E row \in JobRows : SetJob(p, "destroy", row)
  BY <1>0, <1>1, EnqueueKeepsJobs
<1>3. PICK row \in JobRows : SetJob(p, "destroy", row)
  BY <1>2
<1>4. "destroy" \in Kinds /\ runs' \in [Tokens -> RunRows]
  BY <1>0, IInvParts DEF Kinds, TypeOK
<1> QED BY <1>0, <1>2, <1>3, <1>4, JobOnlyKeeps

\* A producer writes the pod's row, and nothing about its state or its VLAN.
LEMMA PodNoteKeeps ==
  ASSUME IInv, NEW p \in Pods, NEW row \in PodRows, SetPod(p, row), UNCHANGED <<vlans, runs, net>>,
         pods[p].status # "absent",
         row.status = pods[p].status, row.vlan = pods[p].vlan, row.vm = pods[p].vm
  PROVE  /\ jobs' = jobs => IInv'
         /\ \A job \in JobRows : SetJob(p, "destroy", job) /\ JobOK(p)' => IInv'
<1>1. TypeOK /\ JobOK(p) /\ "destroy" \in Kinds
  BY IInvParts DEF Kinds
<1>2. PodMay(pods[p], row)
  BY <1>1, IInvParts DEF PodMay, JobOK, NoGhostPod
<1>3. row.status \in {"absent", "destroyed", "destroy_failed"} \/ HoldsVLAN(p)
  BY IInvParts DEF VLANFollowsPod, HoldsVLAN
<1>4. VLANFollowsPod' /\ NoGhostPod' /\ \A q \in Pods : PodMay(pods[q], pods'[q])
  BY <1>2, <1>3, PodWriteKeepsVLANs
<1>5. pods' \in [Pods -> PodRows] /\ vlans' \in [Vlans -> Pods \cup {None}] /\ net' \subseteq Vlans
      /\ runs' \in [Tokens -> RunRows]
  BY <1>1, SetPodWrites DEF TypeOK
<1>6. ASSUME jobs' = jobs PROVE IInv'
  <2>1. TypeOK'
    BY <1>1, <1>5, <1>6 DEF TypeOK
  <2> QED BY <1>4, <1>6, <2>1, StepKeeps
<1>7. ASSUME NEW job \in JobRows, SetJob(p, "destroy", job), JobOK(p)' PROVE IInv'
  BY <1>1, <1>4, <1>5, <1>7, JobStepKeeps
<1> QED BY <1>6, <1>7

\* DeletePod and the sweep: a first look, and the transaction that follows it.
LEMMA DestroyRequestsKeep ==
  ASSUME IInv, NEW p \in Pods, RequestDelete(p) \/ SweepReserve(p) \/ DestroyRequested(p)
  PROVE  IInv'
<1>0. TypeOK /\ JobOK(p) /\ pods[p] \in PodRows
  BY IInvParts, RowsOf
<1>1. CASE RequestDelete(p)
  <2> DEFINE row == [pods[p] EXCEPT !.asked = "delete"]
  <2>1. row \in PodRows /\ row.status = pods[p].status /\ row.vlan = pods[p].vlan /\ row.vm = pods[p].vm
    BY <1>0 DEF PodRows
  <2>2. SetPod(p, row) /\ pods[p].status # "absent" /\ UNCHANGED <<vlans, jobs, runs, net>>
    BY <1>1 DEF RequestDelete
  <2> HIDE DEF row
  <2> QED BY <2>1, <2>2, PodNoteKeeps
<1>2. CASE SweepReserve(p)
  <2> DEFINE row == [pods[p] EXCEPT !.asked = "sweep", !.sweeps = @ + 1]
  <2>0. pods[p].sweeps + 1 \in 0 .. MaxSweeps
    BY <1>0, <1>2 DEF PodRows, SweepReserve
  <2>1. row \in PodRows /\ row.status = pods[p].status /\ row.vlan = pods[p].vlan /\ row.vm = pods[p].vm
    BY <1>0, <2>0 DEF PodRows
  <2>2. SetPod(p, row) /\ pods[p].status # "absent" /\ UNCHANGED <<vlans, jobs, runs, net>>
    BY <1>2 DEF SweepReserve
  <2> HIDE DEF row
  <2> QED BY <2>1, <2>2, PodNoteKeeps
<1>3. CASE DestroyRequested(p)
  <2> DEFINE row == [pods[p] EXCEPT !.asked = "no"]
             need == IF pods[p].asked = "sweep" THEN "failed" ELSE "always"
  <2>1. row \in PodRows /\ row.status = pods[p].status /\ row.vlan = pods[p].vlan /\ row.vm = pods[p].vm
    BY <1>0 DEF PodRows
  <2>2. SetPod(p, row) /\ UNCHANGED <<vlans, runs, net>>
        /\ (jobs' = jobs \/ (EnqueuesDestroy(p, need, None) /\ QueueDestroy(p)))
    <3>1. SetPod(p, row) /\ UNCHANGED <<vlans, runs, net>>
      BY <1>3 DEF DestroyRequested
    <3>2. CASE pods[p].asked = "sweep"
      BY <1>3, <3>1, <3>2 DEF DestroyRequested
    <3>3. CASE pods[p].asked # "sweep"
      BY <1>3, <3>1, <3>3 DEF DestroyRequested
    <3> QED BY <3>2, <3>3
  <2>3. need \in {"always", "active", "empty", "failed"}
    OBVIOUS
  <2> HIDE DEF row, need
  <2>4. CASE pods[p].status = "absent"
    <3>1. jobs' = jobs
      BY <2>2, <2>4 DEF EnqueuesDestroy, CanInsert, CanRestart
    <3>2. PodMay(pods[p], row)
      BY <2>1, <2>4, IInvParts DEF PodMay
    <3>3. VLANFollowsPod' /\ NoGhostPod' /\ \A q \in Pods : PodMay(pods[q], pods'[q])
      BY <2>1, <2>2, <2>4, <3>2, PodWriteKeepsVLANs
    <3>4. TypeOK'
      BY <1>0, <2>1, <2>2, <3>1, SetPodWrites DEF TypeOK
    <3> QED BY <2>2, <3>1, <3>3, <3>4, StepKeeps
  <2>5. CASE pods[p].status # "absent"
    <3>1. pods'[p] = row
      BY <1>0, <2>1, <2>2, SetPodWrites
    <3>2. PodMay(pods[p], pods'[p])
      BY <1>0, <2>1, <2>5, <3>1, IInvParts DEF PodMay, JobOK, NoGhostPod
    <3>3. ASSUME EnqueuesDestroy(p, need, None), QueueDestroy(p)
          PROVE  JobOK(p)' /\ \E job \in JobRows : SetJob(p, "destroy", job)
      BY <2>1, <2>3, <3>1, <3>2, <3>3, EnqueueKeepsJobs
    <3> QED BY <2>1, <2>2, <2>5, <3>3, PodNoteKeeps
  <2> QED BY <2>4, <2>5
<1> QED BY <1>1, <1>2, <1>3

\* CreateVMJob is refused while a destroy job is open.
LEMMA CreateVMJobKeeps ==
  ASSUME IInv, NEW p \in Pods, NEW t \in VMJobTypes, CreateVMJob(p, t)
  PROVE  IInv'
<1> DEFINE deletes == t = "vm_destroy"
           row == [NoJob EXCEPT !.status = "pending", !.deletes = deletes]
<1>0. SetJob(p, "vm", row) /\ UNCHANGED <<pods, vlans, runs, net>> /\ deletes \in BOOLEAN
      /\ ~DestroyIntent(p) /\ pods[p].status # "absent"
  BY DEF CreateVMJob, PodRejectsMutatorJob
<1> HIDE DEF deletes
<1>1. row \in JobRows
  BY <1>0 DEF NoJob, JobRows, Open
<1> HIDE DEF row
<1>2. TypeOK /\ JobOK(p) /\ {"vm", "destroy"} \subseteq Kinds /\ runs' \in [Tokens -> RunRows]
  BY <1>0, IInvParts DEF Kinds, TypeOK
<1>3. jobs'[p]["destroy"] = jobs[p]["destroy"]
  BY <1>0, <1>1, <1>2, SetJobWrites
<1>4. JobOK(p)'
  BY <1>0, <1>2, <1>3 DEF JobOK, DestroyIntent
<1> QED BY <1>0, <1>1, <1>2, <1>4, JobOnlyKeeps

\* The create request takes a free VLAN for a pod that has none.
LEMMA CreatePodRequestKeeps ==
  ASSUME IInv, NEW p \in Pods, NEW v \in Vlans, CreatePodRequest(p, v)
  PROVE  IInv'
<1> DEFINE pod == [pods[p] EXCEPT !.status = "pending", !.vlan = v]
           row == [NoJob EXCEPT !.status = "pending"]
<1>0. /\ pods[p].status = "absent" /\ vlans[v] = None
      /\ SetPod(p, pod) /\ vlans' = [vlans EXCEPT ![v] = p] /\ SetJob(p, "create", row)
      /\ UNCHANGED <<runs, net>>
  BY DEF CreatePodRequest, CreatePodCreateJobTx
<1>1. TypeOK /\ JobOK(p) /\ pods[p] \in PodRows /\ {"create", "vm", "destroy"} \subseteq Kinds
  BY IInvParts, RowsOf DEF Kinds
<1>2. pod \in PodRows /\ PodMay(pods[p], pod) /\ pod.status = "pending" /\ pod.vlan = v
  BY <1>0, <1>1 DEF PodRows, PodMay, Statuses, Gone
<1>3. row \in JobRows /\ row.owner = None /\ row.status = "pending"
  BY DEF JobRows, NoJob, Open
<1> HIDE DEF pod, row
<1>4. pods' \in [Pods -> PodRows] /\ pods'[p] = pod /\ \A q \in Pods : q # p => pods'[q] = pods[q]
  BY <1>0, <1>1, <1>2, SetPodWrites
<1>5. /\ vlans' \in [Vlans -> Pods \cup {None}] /\ net' \subseteq Vlans /\ runs' \in [Tokens -> RunRows]
      /\ vlans'[v] = p /\ \A w \in Vlans : w # v => vlans'[w] = vlans[w]
  BY <1>0, <1>1 DEF TypeOK
<1>6. VLANFollowsPod'
  <2>1. ASSUME NEW q \in Pods, pods'[q].status \notin {"absent", "destroyed", "destroy_failed"}
        PROVE  pods'[q].vlan # None /\ vlans'[pods'[q].vlan] = q
    <3>1. CASE q = p
      BY <1>2, <1>4, <1>5, <3>1
    <3>2. CASE q # p
      <4>1. pods'[q] = pods[q] BY <1>4, <3>2
      <4>2. pods[q].vlan # None /\ vlans[pods[q].vlan] = q
        BY <2>1, <4>1, IInvParts DEF VLANFollowsPod
      <4>3. pods[q].vlan \in Vlans
        BY <4>2, <1>1, RowsOf DEF PodRows
      <4> QED BY <1>0, <1>5, <4>1, <4>2, <4>3
    <3> QED BY <3>1, <3>2
  <2>2. ASSUME NEW w \in Vlans, NEW q \in Pods, vlans'[w] = q
        PROVE  pods'[q].vlan = w /\ pods'[q].status \notin {"absent", "destroyed"}
    <3>1. CASE w = v
      BY <1>2, <1>4, <1>5, <2>2, <3>1
    <3>2. CASE w # v
      BY <1>0, <1>4, <1>5, <2>2, <3>2, IInvParts DEF VLANFollowsPod
    <3> QED BY <3>1, <3>2
  <2> QED BY <2>1, <2>2 DEF VLANFollowsPod
<1>7. NoGhostPod' /\ \A q \in Pods : PodMay(pods[q], pods'[q])
  BY <1>2, <1>4, IInvParts DEF PodMay, NoGhostPod, JobOK
<1>8. JobOK(p)'
  <2>1. jobs'[p]["destroy"] = jobs[p]["destroy"] /\ jobs[p]["destroy"].status = "absent"
    BY <1>0, <1>1, <1>3, SetJobWrites DEF JobOK
  <2> QED BY <1>2, <1>4, <2>1 DEF JobOK, DestroyIntent, Open
<1> QED BY <1>0, <1>1, <1>3, <1>4, <1>5, <1>6, <1>7, <1>8, JobStepKeeps

\* The two transactions that end a pod outside an execution: the cancellation of
\* a pod that never started, and the attested end of an orphaned one.
LEMMA ProducerEndsKeep ==
  ASSUME IInv, NEW p \in Pods, CancelPendingPod(p) \/ FinalizeOrphaned(p)
  PROVE  IInv'
<1>0. TypeOK /\ JobOK(p) /\ pods[p] \in PodRows /\ {"create", "vm", "destroy"} \subseteq Kinds
      /\ \A k \in Kinds : jobs[p][k] \in JobRows
  BY IInvParts, RowsOf DEF Kinds
<1>1. ASSUME NEW row \in PodRows, SetPod(p, row), ReleaseVLAN(p), UNCHANGED <<runs, net>>,
             row.status = "destroyed", row.vlan = pods[p].vlan, pods[p].status # "absent",
             pods[p].vm = "deleted" => row.vm = "deleted",
             NEW k \in Kinds, NEW s \in {"failed", "completed"},
             SetJob(p, k, EndedAs(jobs[p][k], s))
      PROVE  IInv'
  <2> DEFINE job == EndedAs(jobs[p][k], s)
  <2>1. job \in JobRows /\ job.status \notin Open /\ job.owner = None
    BY <1>0 DEF EndedAs, NoJob, JobRows, Terminal, Open
  <2>2. PodMay(pods[p], row)
    BY <1>0, <1>1 DEF PodMay, JobOK, Gone
  <2>3. /\ VLANFollowsPod' /\ NoGhostPod' /\ \A q \in Pods : PodMay(pods[q], pods'[q])
        /\ vlans' \in [Vlans -> Pods \cup {None}]
    BY <1>1, <2>2, PodEndKeepsVLANs
  <2>4. pods' \in [Pods -> PodRows] /\ net' \subseteq Vlans /\ runs' \in [Tokens -> RunRows]
    BY <1>0, <1>1, SetPodWrites DEF TypeOK
  <2>5. SetJob(p, k, job)
    BY <1>1
  <2> HIDE DEF job
  <2>6. JobOK(p)'
    BY <1>1, <2>1, <2>3, <2>5, JobRowKeeps
  <2> QED BY <1>1, <2>1, <2>3, <2>4, <2>5, <2>6, JobStepKeeps
<1>2. CASE CancelPendingPod(p)
  <2> DEFINE row == [pods[p] EXCEPT !.status = "destroyed", !.asked = "no", !.vm = "deleted"]
  <2>1. row \in PodRows /\ row.status = "destroyed" /\ row.vlan = pods[p].vlan /\ row.vm = "deleted"
    BY <1>0 DEF PodRows, Statuses
  <2>2. SetPod(p, row) /\ ReleaseVLAN(p) /\ UNCHANGED <<runs, net>> /\ pods[p].status # "absent"
        /\ SetJob(p, "create", EndedAs(jobs[p]["create"], "failed"))
    BY <1>2 DEF CancelPendingPod, Pristine
  <2> HIDE DEF row
  <2> QED BY <1>0, <1>1, <2>1, <2>2
<1>3. CASE FinalizeOrphaned(p)
  <2> DEFINE row == [pods[p] EXCEPT !.status = "destroyed", !.manual = FALSE]
  <2>1. row \in PodRows /\ row.status = "destroyed" /\ row.vlan = pods[p].vlan /\ row.vm = pods[p].vm
    BY <1>0 DEF PodRows, Statuses
  <2>2. SetPod(p, row) /\ ReleaseVLAN(p) /\ UNCHANGED <<runs, net>> /\ pods[p].status # "absent"
        /\ SetJob(p, "destroy", EndedAs(jobs[p]["destroy"], "completed"))
    BY <1>3 DEF FinalizeOrphaned
  <2> HIDE DEF row
  <2> QED BY <1>0, <1>1, <2>1, <2>2
<1> QED BY <1>2, <1>3

-----------------------------------------------------------------------------
(* The theorems *)

\* The invariant holds at the start.
LEMMA InitHolds == Init => IInv
<1> SUFFICES ASSUME Init PROVE IInv
  OBVIOUS
<1>1. \A p \in Pods : pods[p] = NoPod /\ \A k \in Kinds : jobs[p][k] = NoJob
  BY DEF Init
<1>2. \A c \in Tokens : runs[c] = IdleRun
  BY DEF Init
<1>3. TypeOK
  <2>1. [k \in Kinds |-> NoJob] \in [Kinds -> JobRows]
    BY RowTypes
  <2>2. pods \in [Pods -> PodRows] /\ jobs \in [Pods -> [Kinds -> JobRows]]
    BY RowTypes, <2>1 DEF Init
  <2>3. runs \in [Tokens -> RunRows] /\ vlans \in [Vlans -> Pods \cup {None}] /\ net \subseteq Vlans
    BY RowTypes DEF Init
  <2> QED BY <2>2, <2>3 DEF TypeOK
<1>4. VLANFollowsPod /\ NoGhostPod
  BY <1>1 DEF Init, VLANFollowsPod, NoGhostPod, NoPod
<1>5. ASSUME NEW p \in Pods PROVE JobOK(p)
  <2>1. pods[p].status = "absent" /\ \A k \in Kinds : jobs[p][k].status = "absent"
    BY <1>1 DEF NoPod, NoJob
  <2>2. ~DestroyIntent(p)
    BY <2>1 DEF DestroyIntent, Open, Kinds
  <2> QED BY <2>1, <2>2 DEF JobOK
<1>6. \A c \in Tokens : RunOK(c)
  BY <1>2 DEF RunOK, MarkOK, IdleRun, Teardown
<1> QED BY <1>3, <1>4, <1>5, <1>6, IInvParts

\* A step that changes nothing.
LEMMA StutterKeeps ==
  ASSUME IInv, UNCHANGED vars
  PROVE  IInv'
<1>1. TypeOK' /\ VLANFollowsPod' /\ NoGhostPod' /\ \A q \in Pods : PodMay(pods[q], pods'[q])
  BY IInvParts, PodsStay DEF TypeOK, vars
<1> QED BY <1>1, StepKeeps DEF vars

\* Requests, sweeps, expiry, recovery and claims.
LEMMA PodStepsKeep ==
  ASSUME IInv, NEW p \in Pods, PodStep(p)
  PROVE  IInv'
  BY CreatePodRequestKeeps, CreateVMJobKeeps, DestroyRequestsKeep, ProducerEndsKeep,
     ExpirePodKeeps, RecoverJobKeeps, ClaimJobKeeps DEF PodStep

\* The steps of executions.
LEMMA RunStepsKeep ==
  ASSUME IInv, NEW c \in Tokens, RunStep(c)
  PROVE  IInv'
<1>1. CASE CreateStep(c)
  BY <1>1, StartCreateKeeps, RecheckKeeps, BuildMovesKeep, RecordStepKeeps, HandoffStepKeeps,
     BuildWritesKeep, ActivateKeeps DEF CreateStep
<1>2. CASE CleanupStep(c)
  BY <1>2, BeginCleanupKeeps, CleanupMovesKeep, RollbackKeeps, AbandonCloneKeeps,
     FinalizersKeep DEF CleanupStep
<1>3. CASE DestroyStep(c)
  BY <1>3, PrepareDestroyKeeps, DestroyMovesKeep, DestroyVMsKeeps, DeletePortGroupsKeeps,
     FinalizersKeep, WriteDestroyFailedKeeps DEF DestroyStep
<1>4. CASE OperateVM(c) \/ DestroyVM(c) \/ DestroyEmptyPod(c) \/ Crash(c)
  BY <1>4, OtherMovesKeep, DestroyVMKeeps, DestroyEmptyPodKeeps
<1>5. CASE CompleteJob(c) \/ RetryJob(c) \/ RetryCleanup(c) \/ FailJob(c)
  BY <1>5, SettlementsKeep
<1> QED BY <1>1, <1>2, <1>3, <1>4, <1>5 DEF RunStep

\* The inductive invariant holds in every reachable state: whatever the order in
\* which requests, sweeps, workers, lost leases and crashes take their steps.
THEOREM PodInvariant == Spec => []IInv
<1>1. Init => IInv
  BY InitHolds
<1>2. IInv /\ [Next]_vars => IInv'
  BY StutterKeeps, PodStepsKeep, RunStepsKeep DEF Next
<1> QED BY <1>1, <1>2, PTL DEF Spec

\* The types of the rows and of the executions' local state.
THEOREM PodTypes == Spec => []TypeOK
<1>1. IInv => TypeOK
  BY DEF IInv
<1> QED BY <1>1, PodInvariant, PTL

\* A pod that is not destroyed holds exactly the VLAN its row names, and the
\* pool leaks none: the finalizers, the cancellation and every late write
\* together (FinalizePodDestroy, FinalizeNeverAppliedPodCreate,
\* CancelPendingPodIfNeverStarted, FinalizeOrphanedPodDestroy).
THEOREM PodVLAN == Spec => []VLANFollowsPod
<1>1. IInv => VLANFollowsPod
  BY DEF IInv
<1> QED BY <1>1, PodInvariant, PTL

\* An execution that tears resources down, with or without its claim, works on a
\* pod that is past provisioning and active (BeginPodCreateCleanup,
\* PreparePodDestroy).
THEOREM PodTeardown == Spec => []TeardownMeetsNoLivePod
<1>1. IInv => TeardownMeetsNoLivePod
  BY DEF IInv
<1> QED BY <1>1, PodInvariant, PTL

\* No slow create job makes a pod active whose VM is gone (UpdatePodStatusFrom
\* after the power-on).
THEOREM PodActiveHasVM == Spec => []NoGhostPod
<1>1. IInv => NoGhostPod
  BY DEF IInv
<1> QED BY <1>1, PodInvariant, PTL

\* While a destroy job is open nothing builds: an open create job compensates or
\* finds the pod past building, an open VM job is the one that emptied the pod
\* (rejectPodDestroyWithNonterminalMutator, Record's handoff).
THEOREM PodDestroyExcludes == Spec => []DestroyExcludesMutators
<1>1. IInv => DestroyExcludesMutators
  BY DEF IInv
<1> QED BY <1>1, PodInvariant, PTL

-----------------------------------------------------------------------------
(* The jobs of pods implement the queue *)

\* The abstract state, job by job and execution by execution.
LEMMA AbstractTypes ==
  /\ \A p \in Pods, k \in Kinds :
        /\ <<p, k>> \in JobNames
        /\ JobStates[<<p, k>>] = StateOf(jobs[p][k]) /\ JobHolders[<<p, k>>] = HolderOf(jobs[p][k])
  /\ \A c \in Tokens : RunsAtWork[c] = WorkOf(runs[c])
  /\ JobStates = [n \in JobNames |-> JobStates[n]] /\ JobHolders = [n \in JobNames |-> JobHolders[n]]
  /\ RunsAtWork = [c \in Tokens |-> RunsAtWork[c]]
  BY DEF JobNames, JobStates, JobHolders, RunsAtWork

\* The abstract state of the next state.
LEMMA AbstractNext ==
  /\ JobStates' = [n \in JobNames |-> StateOf(jobs'[n[1]][n[2]])]
  /\ JobHolders' = [n \in JobNames |-> HolderOf(jobs'[n[1]][n[2]])]
  /\ RunsAtWork' = [c \in Tokens |-> WorkOf(runs'[c])]
  BY DEF JobStates, JobHolders, RunsAtWork, StateOf, HolderOf, WorkOf

\* What is not written does not change.
LEMMA AbstractUnwritten ==
  /\ jobs' = jobs => JobStates' = JobStates /\ JobHolders' = JobHolders
  /\ runs' = runs => RunsAtWork' = RunsAtWork
  BY DEF JobStates, JobHolders, RunsAtWork

\* A write of one job row puts that job, and no other, in its new state.
LEMMA AbstractWrite ==
  ASSUME TypeOK, NEW p \in Pods, NEW k \in Kinds, NEW row, SetJob(p, k, row)
  PROVE  Abstract!Put(<<p, k>>, StateOf(row), HolderOf(row))
<1>1. \A q \in Pods, i \in Kinds : jobs'[q][i] = IF q = p /\ i = k THEN row ELSE jobs[q][i]
  BY DEF TypeOK, SetJob
<1>2. \A n \in JobNames : /\ n[1] \in Pods /\ n[2] \in Kinds /\ n = <<n[1], n[2]>>
                          /\ n = <<p, k>> <=> n[1] = p /\ n[2] = k
  <2>1. ASSUME NEW n \in JobNames PROVE \E q \in Pods, i \in Kinds : n = <<q, i>>
    BY DEF JobNames
  <2>2. \A q, i : <<q, i>>[1] = q /\ <<q, i>>[2] = i
    OBVIOUS
  <2> QED BY <2>1, <2>2
<1>3. \A n \in JobNames :
         /\ StateOf(jobs'[n[1]][n[2]]) = IF n = <<p, k>> THEN StateOf(row) ELSE JobStates[n]
         /\ HolderOf(jobs'[n[1]][n[2]]) = IF n = <<p, k>> THEN HolderOf(row) ELSE JobHolders[n]
  <2> TAKE n \in JobNames
  <2>1. JobStates[n] = StateOf(jobs[n[1]][n[2]]) /\ JobHolders[n] = HolderOf(jobs[n[1]][n[2]])
    BY DEF JobStates, JobHolders
  <2>2. jobs'[n[1]][n[2]] = IF n = <<p, k>> THEN row ELSE jobs[n[1]][n[2]]
    BY <1>1, <1>2
  <2> QED BY <2>1, <2>2
<1> QED BY <1>3, AbstractNext, AbstractTypes DEF Abstract!Put

\* A write that neither grants a row nor takes it away is not seen.
LEMMA AbstractSame ==
  ASSUME TypeOK, NEW p \in Pods, NEW k \in Kinds, NEW row, SetJob(p, k, row),
         row.status = jobs[p][k].status, row.owner = jobs[p][k].owner
  PROVE  JobStates' = JobStates /\ JobHolders' = JobHolders
<1>1. Abstract!Put(<<p, k>>, StateOf(row), HolderOf(row))
  BY AbstractWrite
<1>2. StateOf(row) = JobStates[<<p, k>>] /\ HolderOf(row) = JobHolders[<<p, k>>]
  BY AbstractTypes DEF StateOf, HolderOf
<1> QED BY <1>1, <1>2, AbstractTypes DEF Abstract!Put

\* A row that is put back waits, and an ended one is over.
LEMMA AbstractRows ==
  ASSUME NEW row \in JobRows
  PROVE  /\ \A a, b \in BOOLEAN : LET q == [Requeued(row) EXCEPT !.cleanup = a, !.steps = b]
                                  IN  StateOf(q) = "waiting" /\ HolderOf(q) = None
         /\ LET q == [Requeued(row) EXCEPT !.retried = FALSE]
            IN  StateOf(q) = "waiting" /\ HolderOf(q) = None
         /\ StateOf(Requeued(row)) = "waiting" /\ HolderOf(Requeued(row)) = None
         /\ \A s \in Terminal : StateOf(EndedAs(row, s)) = s /\ HolderOf(EndedAs(row, s)) = None
         /\ \A d \in BOOLEAN : LET q == [NoJob EXCEPT !.status = "pending", !.deletes = d]
                               IN  StateOf(q) = "waiting" /\ HolderOf(q) = None
         /\ LET q == [NoJob EXCEPT !.status = "pending"]
            IN  StateOf(q) = "waiting" /\ HolderOf(q) = None
  BY DEF JobRows, Requeued, EndedAs, NoJob, StateOf, HolderOf, Terminal

\* A step moves no execution but c, and c stays with its job as long as it runs.
Stays(c) ==
    /\ \A d \in Tokens : d # c => runs'[d] = runs[d]
    /\ runs'[c].pc # "idle" => runs'[c].pod = runs[c].pod /\ runs'[c].kind = runs[c].kind

\* Such an execution goes on or stops.
LEMMA AbstractStays ==
  ASSUME NEW c \in Tokens, runs[c].pc # "idle", Stays(c)
  PROVE  /\ runs'[c].pc # "idle" => RunsAtWork' = RunsAtWork
         /\ runs'[c].pc = "idle" => Abstract!Stops(c)
<1>1. \A d \in Tokens : d # c => WorkOf(runs'[d]) = RunsAtWork[d]
  BY AbstractTypes DEF Stays
<1>2. CASE runs'[c].pc # "idle"
  <2>1. WorkOf(runs'[c]) = RunsAtWork[c]
    BY <1>2, AbstractTypes DEF Stays, WorkOf
  <2>2. \A d \in Tokens : WorkOf(runs'[d]) = RunsAtWork[d]
    BY <1>1, <2>1
  <2> QED BY <1>2, <2>2, AbstractNext, AbstractTypes
<1>3. CASE runs'[c].pc = "idle"
  <2>1. \A d \in Tokens : WorkOf(runs'[d]) = IF d = c THEN None ELSE RunsAtWork[d]
    BY <1>1, <1>3 DEF WorkOf
  <2> QED BY <1>3, <2>1, AbstractNext, AbstractTypes DEF Abstract!Stops
<1> QED BY <1>2, <1>3

\* An execution that is under way works on a job of a pod.
LEMMA AbstractAtWork ==
  ASSUME IInv, NEW c \in Tokens, runs[c].pc # "idle"
  PROVE  /\ PodOf(c) \in Pods /\ runs[c].kind \in Kinds /\ JobOf(c) \in JobRows
         /\ RunsAtWork[c] = <<PodOf(c), runs[c].kind>> /\ RunsAtWork[c] \in JobNames
         /\ Owns(c) => Abstract!Holds(c)
<1>1. TypeOK /\ PodOf(c) \in Pods
  BY DEF IInv, RunsWorkOnPods
<1>2. runs[c].kind \in Kinds /\ JobOf(c) \in JobRows
  BY <1>1, RowsOf DEF RunRows, JobOf
<1>3. RunsAtWork[c] = <<PodOf(c), runs[c].kind>> /\ RunsAtWork[c] \in JobNames
  BY <1>1, <1>2, AbstractTypes DEF WorkOf, PodOf
<1>4. Owns(c) => JobHolders[<<PodOf(c), runs[c].kind>>] = c
  BY <1>1, <1>2, AbstractTypes DEF Owns, JobOf, HolderOf
<1> QED BY <1>1, <1>2, <1>3, <1>4 DEF Abstract!Holds

\* A step of an execution that leaves the rows as they look.
LEMMA AbstractQuiet ==
  ASSUME IInv, NEW c \in Tokens, runs[c].pc # "idle", Stays(c), JobStates' = JobStates, JobHolders' = JobHolders
  PROVE  [Abstract!Next]_(Abstract!vars)
<1>1. CASE runs'[c].pc # "idle"
  BY <1>1, AbstractStays DEF Abstract!vars
<1>2. CASE runs'[c].pc = "idle"
  <2>1. Abstract!Stop(c)
    BY <1>2, AbstractStays, AbstractAtWork DEF Abstract!Stop
  <2> QED BY <2>1 DEF Abstract!Next
<1> QED BY <1>1, <1>2

\* The body's end keeps to the job.
LEMMA SettleStays ==
  ASSUME TypeOK, NEW c \in Tokens, NEW out, Settle(c, out)
  PROVE  Stays(c) /\ (Owns(c) => runs'[c].pc = "settle")
<1>1. PICK row : row = IF Owns(c) THEN [IdleRun EXCEPT !.pc = "settle", !.pod = PodOf(c),
                                         !.kind = runs[c].kind, !.cleanup = runs[c].cleanup, !.out = out]
                                  ELSE IdleRun
  OBVIOUS
<1>2. runs' = [runs EXCEPT ![c] = row]
  BY <1>1 DEF Settle
<1>3. runs'[c] = row /\ \A d \in Tokens : d # c => runs'[d] = runs[d]
  BY <1>2 DEF TypeOK
<1>4. /\ row.pc # "idle" => row.pod = runs[c].pod /\ row.kind = runs[c].kind
      /\ Owns(c) => row.pc = "settle"
  BY <1>1 DEF IdleRun, PodOf
<1> QED BY <1>3, <1>4 DEF Stays

\* So does every step of a create body,
LEMMA CreateStays ==
  ASSUME TypeOK, NEW c \in Tokens, CreateStep(c)
  PROVE  Stays(c) /\ runs[c].pc # "idle"
<1>1. (\E out : Settle(c, out)) => Stays(c)
  BY SettleStays
<1>2. CASE StartCreate(c) \/ Recheck(c) \/ StopRefused(c)
  BY <1>1, <1>2 DEF StartCreate, Recheck, StopRefused, At, Goto, Stays, TypeOK, RunRows
<1>3. CASE BuildNetwork(c) \/ RecordStep(c) \/ HandoffStep(c)
  BY <1>1, <1>3 DEF BuildNetwork, RecordStep, HandoffStep, At, Goto, Stays, TypeOK, RunRows
<1>4. CASE BuildPortGroup(c) \/ CloneVM(c) \/ PowerOnVMs(c) \/ Activate(c) \/ BuildFails(c)
  BY <1>1, <1>4
  DEF BuildPortGroup, CloneVM, PowerOnVMs, Activate, BuildFails, At, Goto, Stays, TypeOK, RunRows
<1> QED BY <1>2, <1>3, <1>4 DEF CreateStep

\* of its compensation,
LEMMA CleanupStays ==
  ASSUME TypeOK, NEW c \in Tokens, CleanupStep(c)
  PROVE  Stays(c) /\ runs[c].pc # "idle"
<1>1. (\E out : Settle(c, out)) => Stays(c)
  BY SettleStays
<1>2. CASE BeginCleanup(c) \/ BeginFails(c) \/ NothingToUndo(c) \/ AbandonClone(c)
  BY <1>1, <1>2
  DEF BeginCleanup, BeginFails, NothingToUndo, AbandonClone, At, Goto, Stays, TypeOK, RunRows
<1>3. CASE \E undone \in SUBSET {"vm", "portgroup", "network"} : Rollback(c, undone)
  BY <1>1, <1>3 DEF Rollback, At, Goto, Stays, TypeOK, RunRows
<1>4. CASE FinalizeNeverApplied(c) \/ MarkCompensated(c) \/ CleanupFails(c)
  BY <1>1, <1>4
  DEF FinalizeNeverApplied, MarkCompensated, CleanupFails, At, Goto, Stays, TypeOK, RunRows
<1> QED BY <1>2, <1>3, <1>4 DEF CleanupStep

\* of a destroy body and of a VM job.
LEMMA DestroyStays ==
  ASSUME TypeOK, NEW c \in Tokens,
         DestroyStep(c) \/ OperateVM(c) \/ DestroyVM(c) \/ DestroyEmptyPod(c)
  PROVE  Stays(c) /\ runs[c].pc # "idle"
<1>1. (\E out : Settle(c, out)) => Stays(c)
  BY SettleStays
<1>2. CASE PrepareDestroy(c) \/ PrepareStops(c) \/ DestroyVMs(c) \/ DeletePortGroups(c)
  BY <1>1, <1>2
  DEF PrepareDestroy, PrepareStops, DestroyVMs, DeletePortGroups, At, Goto, Stays, TypeOK, RunRows
<1>3. CASE DeleteNetwork(c) \/ CollectedErrors(c) \/ FinalizeDestroy(c) \/ FinalizeFails(c) \/ WriteDestroyFailed(c)
  BY <1>1, <1>3
  DEF DeleteNetwork, CollectedErrors, FinalizeDestroy, FinalizeFails, WriteDestroyFailed, At,
      Goto, Stays, TypeOK, RunRows
<1>4. CASE OperateVM(c) \/ DestroyVM(c) \/ DestroyEmptyPod(c)
  BY <1>1, <1>4 DEF OperateVM, DestroyVM, DestroyEmptyPod, At, Goto, Stays, TypeOK, RunRows
<1> QED BY <1>2, <1>3, <1>4 DEF DestroyStep, OperateVM, DestroyVM, DestroyEmptyPod


\* The steps of an execution that write a job row but leave its owner and status.
LEMMA AbstractMarks ==
  ASSUME IInv, NEW c \in Tokens, Stays(c), runs[c].pc # "idle",
         \/ RecordStep(c) \/ BeginCleanup(c) \/ AbandonClone(c)
         \/ \E undone \in SUBSET {"vm", "portgroup", "network"} : Rollback(c, undone)
  PROVE  [Abstract!Next]_(Abstract!vars)
<1>1. TypeOK /\ PodOf(c) \in Pods /\ JobOf(c) \in JobRows /\ "create" \in Kinds
  BY AbstractAtWork, RowsOf DEF IInv
<1>2. runs[c].kind = "create" /\ JobOf(c) = jobs[PodOf(c)]["create"]
  BY DEF RecordStep, BeginCleanup, AbandonClone, Rollback, At, JobOf
<1>3. \/ jobs' = jobs
      \/ \E b \in BOOLEAN : SetJob(PodOf(c), "create", [JobOf(c) EXCEPT !.steps = b])
      \/ \E b \in BOOLEAN : SetJob(PodOf(c), "create", [JobOf(c) EXCEPT !.cleanup = b])
  BY DEF RecordStep, BeginCleanup, AbandonClone, Rollback
<1>4. \A b \in BOOLEAN : /\ [JobOf(c) EXCEPT !.steps = b].status = JobOf(c).status
                         /\ [JobOf(c) EXCEPT !.steps = b].owner = JobOf(c).owner
                         /\ [JobOf(c) EXCEPT !.cleanup = b].status = JobOf(c).status
                         /\ [JobOf(c) EXCEPT !.cleanup = b].owner = JobOf(c).owner
  BY <1>1 DEF JobRows
<1>5. JobStates' = JobStates /\ JobHolders' = JobHolders
  BY <1>1, <1>2, <1>3, <1>4, AbstractSame, AbstractUnwritten
<1> QED BY <1>5, AbstractQuiet

\* A create execution hands its step to a successor, or fails to.
LEMMA AbstractHandoff ==
  ASSUME IInv, NEW c \in Tokens, Stays(c), runs[c].pc # "idle", HandoffStep(c)
  PROVE  [Abstract!Next]_(Abstract!vars)
<1>1. TypeOK /\ PodOf(c) \in Pods /\ JobOf(c) \in JobRows /\ "create" \in Kinds /\ runs[c].kind = "create"
  BY AbstractAtWork, RowsOf DEF IInv, HandoffStep
<1>2. CASE jobs' = jobs
  BY <1>2, AbstractUnwritten, AbstractQuiet
<1>3. CASE /\ JobOf(c).status # "completed"
           /\ SetJob(PodOf(c), "create", [Requeued(JobOf(c)) EXCEPT !.cleanup = TRUE, !.steps = TRUE])
  <2>1. PICK row : row = [Requeued(JobOf(c)) EXCEPT !.cleanup = TRUE, !.steps = TRUE]
    OBVIOUS
  <2>2. StateOf(row) = "waiting" /\ HolderOf(row) = None
    BY <1>1, <2>1, AbstractRows
  <2>3. Abstract!Put(RunsAtWork[c], "waiting", None)
    BY <1>1, <1>3, <2>1, <2>2, AbstractWrite, AbstractAtWork
  <2>4. RunsAtWork[c] = <<PodOf(c), "create">>
    BY <1>1, AbstractAtWork
  <2>5. RunsAtWork[c] \in Pods \X {"create"}
    BY <1>1, <2>4
  <2>6. StateOf(JobOf(c)) # "completed"
    BY <1>3 DEF StateOf
  <2>7. JobStates[RunsAtWork[c]] # "completed"
    BY <1>1, <2>4, <2>6, AbstractTypes DEF JobOf
  <2>8. Abstract!Stops(c) \/ RunsAtWork' = RunsAtWork
    BY AbstractStays
  <2>9. Abstract!HandOff(c)
    BY <2>3, <2>5, <2>7, <2>8 DEF Abstract!HandOff
  <2> QED BY <2>9 DEF Abstract!Next
<1> QED BY <1>2, <1>3 DEF HandoffStep

\* A destroy job is inserted or started again, whoever asks for it.
LEMMA AbstractEnqueue ==
  ASSUME TypeOK, NEW p \in Pods, NEW need, NEW but, EnqueuesDestroy(p, need, but), QueueDestroy(p),
         RunsAtWork' = RunsAtWork
  PROVE  Abstract!Next
<1>1. "destroy" \in Kinds /\ jobs[p]["destroy"] \in JobRows
  BY RowsOf
<1>2. PICK row : row = [Requeued(jobs[p]["destroy"]) EXCEPT !.retried = FALSE]
  OBVIOUS
<1>3. StateOf(row) = "waiting" /\ HolderOf(row) = None
  BY <1>1, <1>2, AbstractRows
<1>4. Abstract!Put(<<p, "destroy">>, "waiting", None)
  BY <1>1, <1>2, <1>3, AbstractWrite DEF QueueDestroy
<1>5. JobStates[<<p, "destroy">>] \in {"absent", "completed", "failed"}
  BY <1>1, AbstractTypes DEF EnqueuesDestroy, StateOf, Terminal
<1>6. Abstract!Submit(<<p, "destroy">>) \/ Abstract!Restart(<<p, "destroy">>)
  BY <1>4, <1>5 DEF Abstract!Submit, Abstract!Restart
<1> QED BY <1>1, <1>6, AbstractTypes DEF Abstract!Next

\* The vm_destroy execution that emptied its pod asks for the destroy job.
LEMMA AbstractEmptyPod ==
  ASSUME IInv, NEW c \in Tokens, Stays(c), runs[c].pc # "idle", DestroyEmptyPod(c)
  PROVE  [Abstract!Next]_(Abstract!vars)
<1>1. TypeOK /\ PodOf(c) \in Pods
  BY AbstractAtWork DEF IInv
<1>2. CASE jobs' = jobs
  BY <1>2, AbstractUnwritten, AbstractQuiet
<1>3. CASE /\ Owns(c) /\ EnqueuesDestroy(PodOf(c), "empty", c)
           /\ QueueDestroy(PodOf(c)) /\ Settle(c, "ok")
  <2>1. runs'[c].pc = "settle"
    BY <1>1, <1>3, SettleStays
  <2>2. RunsAtWork' = RunsAtWork
    BY <2>1, AbstractStays
  <2> QED BY <1>1, <1>3, <2>2, AbstractEnqueue
<1> QED BY <1>2, <1>3 DEF DestroyEmptyPod

\* processJobLifecycle after the body: the owner finishes its job or gives it back.
LEMMA AbstractSettlement ==
  ASSUME IInv, NEW c \in Tokens, CompleteJob(c) \/ RetryJob(c) \/ RetryCleanup(c) \/ FailJob(c)
  PROVE  Abstract!Next
<1> DEFINE name == <<PodOf(c), runs[c].kind>>
<1>1. runs[c].pc # "idle" /\ Owns(c)
  BY DEF CompleteJob, RetryJob, RetryCleanup, FailJob, Settling
<1>2. /\ TypeOK /\ PodOf(c) \in Pods /\ runs[c].kind \in Kinds /\ JobOf(c) \in JobRows
      /\ RunsAtWork[c] = name /\ Abstract!Holds(c)
  BY <1>1, AbstractAtWork DEF IInv
<1>3. PICK row : EndRun(c, row) /\ \/ row = EndedAs(JobOf(c), "completed")
                                   \/ \E m \in BOOLEAN : row = [EndedAs(JobOf(c), "failed") EXCEPT !.manual = m]
                                   \/ \E a, b \in BOOLEAN : row = [Requeued(JobOf(c)) EXCEPT !.retried = a, !.cleanup = b]
  BY DEF CompleteJob, RetryJob, RetryCleanup, FailJob
<1>4. StateOf(row) \in {"completed", "failed", "waiting"} /\ HolderOf(row) = None
  <2>1. "completed" \in Terminal /\ "failed" \in Terminal
    BY DEF Terminal
  <2>2. CASE row = EndedAs(JobOf(c), "completed")
    BY <1>2, <2>1, <2>2, AbstractRows
  <2>3. CASE \E m \in BOOLEAN : row = [EndedAs(JobOf(c), "failed") EXCEPT !.manual = m]
    <3>1. PICK m \in BOOLEAN : row = [EndedAs(JobOf(c), "failed") EXCEPT !.manual = m]
      BY <2>3
    <3> QED BY <3>1 DEF EndedAs, NoJob, StateOf, HolderOf
  <2>4. CASE \E a, b \in BOOLEAN : row = [Requeued(JobOf(c)) EXCEPT !.retried = a, !.cleanup = b]
    <3>1. PICK a \in BOOLEAN, b \in BOOLEAN : row = [Requeued(JobOf(c)) EXCEPT !.retried = a, !.cleanup = b]
      BY <2>4
    <3> QED BY <1>2, <3>1 DEF JobRows, Requeued, StateOf, HolderOf
  <2> QED BY <1>3, <2>2, <2>3, <2>4
<1>5. Abstract!Put(name, StateOf(row), None)
  BY <1>2, <1>3, <1>4, AbstractWrite DEF EndRun
<1>6. Stays(c) /\ runs'[c].pc = "idle"
  BY <1>2, <1>3 DEF EndRun, Stays, TypeOK, IdleRun
<1>7. Abstract!Stops(c)
  BY <1>1, <1>6, AbstractStays
<1>8. CASE StateOf(row) = "waiting"
  <2>1. Abstract!GiveBack(c)
    BY <1>2, <1>5, <1>7, <1>8 DEF Abstract!GiveBack
  <2> QED BY <2>1 DEF Abstract!Next
<1>9. CASE StateOf(row) \in {"completed", "failed"}
  <2>1. Abstract!Finish(c, StateOf(row))
    BY <1>2, <1>5, <1>7 DEF Abstract!Finish
  <2> QED BY <1>9, <2>1 DEF Abstract!Next
<1> QED BY <1>4, <1>8, <1>9

\* Every step of an execution is one of the queue, or none.
LEMMA AbstractRunStep ==
  ASSUME IInv, NEW c \in Tokens, RunStep(c)
  PROVE  [Abstract!Next]_(Abstract!vars)
<1>0. TypeOK BY DEF IInv
<1>1. CASE CompleteJob(c) \/ RetryJob(c) \/ RetryCleanup(c) \/ FailJob(c)
  BY <1>1, AbstractSettlement
<1>2. CASE Crash(c)
  <2>1. Stays(c) /\ runs[c].pc # "idle" /\ jobs' = jobs
    BY <1>0, <1>2 DEF Crash, Stays, TypeOK, IdleRun
  <2> QED BY <2>1, AbstractUnwritten, AbstractQuiet
<1>3. CASE CreateStep(c) \/ CleanupStep(c) \/ DestroyStep(c) \/ OperateVM(c) \/ DestroyVM(c) \/ DestroyEmptyPod(c)
  <2>1. Stays(c) /\ runs[c].pc # "idle"
    BY <1>0, <1>3, CreateStays, CleanupStays, DestroyStays
  <2>2. CASE HandoffStep(c)
    BY <2>1, <2>2, AbstractHandoff
  <2>3. CASE DestroyEmptyPod(c)
    BY <2>1, <2>3, AbstractEmptyPod
  <2>4. CASE \/ RecordStep(c) \/ BeginCleanup(c) \/ AbandonClone(c)
             \/ \E undone \in SUBSET {"vm", "portgroup", "network"} : Rollback(c, undone)
    BY <2>1, <2>4, AbstractMarks
  <2>5. CASE jobs' = jobs
    BY <2>1, <2>5, AbstractUnwritten, AbstractQuiet
  <2> QED
    BY <1>3, <2>2, <2>3, <2>4, <2>5
    DEF CreateStep, StartCreate, Recheck, StopRefused, BuildNetwork, BuildPortGroup, CloneVM,
        PowerOnVMs,
        Activate, BuildFails, CleanupStep, BeginFails, NothingToUndo, FinalizeNeverApplied,
        MarkCompensated, CleanupFails, DestroyStep, PrepareDestroy, PrepareStops, DestroyVMs,
        DeletePortGroups,
        DeleteNetwork, CollectedErrors, FinalizeDestroy, FinalizeFails, WriteDestroyFailed,
        OperateVM, DestroyVM
<1> QED BY <1>1, <1>2, <1>3 DEF RunStep

\* So is every step of a producer, and every claim and recovery.
LEMMA AbstractPodStep ==
  ASSUME IInv, NEW p \in Pods, PodStep(p)
  PROVE  [Abstract!Next]_(Abstract!vars)
<1>0. TypeOK /\ \A k \in Kinds : jobs[p][k] \in JobRows
  BY RowsOf DEF IInv
<1>1. ASSUME NEW v \in Vlans, CreatePodRequest(p, v) PROVE Abstract!Submit(<<p, "create">>)
  <2>1. "create" \in Kinds /\ StateOf(jobs[p]["create"]) = "absent"
    BY <1>1 DEF CreatePodRequest, IInv, PodComesFirst, Kinds, StateOf
  <2>2. Abstract!Put(<<p, "create">>, "waiting", None)
    <3>1. PICK row : row = [NoJob EXCEPT !.status = "pending"]
      OBVIOUS
    <3>2. StateOf(row) = "waiting" /\ HolderOf(row) = None
      BY <1>0, <2>1, <3>1, AbstractRows
    <3> QED BY <1>0, <1>1, <2>1, <3>1, <3>2, AbstractWrite
    DEF CreatePodRequest, CreatePodCreateJobTx
  <2> QED BY <1>1, <2>1, <2>2, AbstractTypes, AbstractUnwritten
  DEF CreatePodRequest, Abstract!Submit
<1>2. ASSUME NEW t \in VMJobTypes, CreateVMJob(p, t)
      PROVE  Abstract!Submit(<<p, "vm">>) \/ Abstract!Restart(<<p, "vm">>)
  <2>1. "vm" \in Kinds /\ StateOf(jobs[p]["vm"]) \in {"absent", "completed", "failed"}
    BY <1>0, <1>2 DEF CreateVMJob, Kinds, StateOf, JobRows, Open, Terminal
  <2>2. Abstract!Put(<<p, "vm">>, "waiting", None)
    <3>1. PICK row : row = [NoJob EXCEPT !.status = "pending", !.deletes = t = "vm_destroy"]
      OBVIOUS
    <3>2. StateOf(row) = "waiting" /\ HolderOf(row) = None
      BY <1>0, <2>1, <3>1, AbstractRows
    <3> QED BY <1>0, <1>2, <2>1, <3>1, <3>2, AbstractWrite DEF CreateVMJob
  <2> QED BY <1>2, <2>1, <2>2, AbstractTypes, AbstractUnwritten
  DEF CreateVMJob, Abstract!Submit, Abstract!Restart
<1>3. CASE RequestDelete(p) \/ SweepReserve(p)
  BY <1>3, AbstractUnwritten DEF RequestDelete, SweepReserve, Abstract!vars
<1>4. CASE CancelPendingPod(p)
  <2>1. "create" \in Kinds /\ StateOf(jobs[p]["create"]) = "waiting"
    BY <1>4 DEF CancelPendingPod, Pristine, Kinds, StateOf
  <2>2. Abstract!Put(<<p, "create">>, "failed", None)
    <3>1. PICK row : row = EndedAs(jobs[p]["create"], "failed")
      OBVIOUS
    <3>2. StateOf(row) = "failed" /\ HolderOf(row) = None
      BY <1>0, <2>1, <3>1, AbstractRows DEF Terminal
    <3> QED BY <1>0, <1>4, <2>1, <3>1, <3>2, AbstractWrite DEF CancelPendingPod
  <2>3. Abstract!Withdraw(<<p, "create">>)
    BY <1>4, <2>1, <2>2, AbstractTypes, AbstractUnwritten DEF CancelPendingPod, Abstract!Withdraw
  <2> QED BY <2>1, <2>3, AbstractTypes DEF Abstract!Next
<1>5. CASE DestroyRequested(p) \/ ExpirePod(p)
  <2>1. runs' = runs
    BY <1>5 DEF DestroyRequested, ExpirePod
  <2>2. jobs' = jobs \/ \E need \in {"failed", "always", "active"} : EnqueuesDestroy(p, need, None) /\ QueueDestroy(p)
    BY <1>5 DEF DestroyRequested, ExpirePod
  <2> QED BY <1>0, <2>1, <2>2, AbstractEnqueue, AbstractUnwritten DEF Abstract!vars
<1>6. CASE FinalizeOrphaned(p)
  <2>1. "destroy" \in Kinds /\ StateOf(jobs[p]["destroy"]) = "failed"
    BY <1>6 DEF FinalizeOrphaned, Kinds, StateOf
  <2>2. Abstract!Put(<<p, "destroy">>, "completed", None)
    <3>1. PICK row : row = EndedAs(jobs[p]["destroy"], "completed")
      OBVIOUS
    <3>2. StateOf(row) = "completed" /\ HolderOf(row) = None
      BY <1>0, <2>1, <3>1, AbstractRows DEF Terminal
    <3> QED BY <1>0, <1>6, <2>1, <3>1, <3>2, AbstractWrite DEF FinalizeOrphaned
  <2>3. Abstract!Attest(<<p, "destroy">>)
    BY <1>6, <2>1, <2>2, AbstractTypes, AbstractUnwritten DEF FinalizeOrphaned, Abstract!Attest
  <2> QED BY <2>1, <2>3, AbstractTypes DEF Abstract!Next
<1>7. ASSUME NEW k \in Kinds, RecoverJob(p, k) PROVE Abstract!Next
  <2> DEFINE lost == {<<p, k>>}
  <2>1. lost # {} /\ lost \in SUBSET JobNames /\ \A n \in lost : JobStates[n] = "held"
    BY <1>7, AbstractTypes DEF RecoverJob, StateOf
  <2>2. Abstract!Put(<<p, k>>, "waiting", None)
    <3>1. PICK row : row = Requeued(jobs[p][k])
      OBVIOUS
    <3>2. StateOf(row) = "waiting" /\ HolderOf(row) = None
      BY <1>0, <3>1, AbstractRows
    <3> QED BY <1>0, <1>7, <3>1, <3>2, AbstractWrite DEF RecoverJob
  <2>3. /\ JobStates' = [n \in JobNames |-> IF n \in lost THEN "waiting" ELSE JobStates[n]]
        /\ JobHolders' = [n \in JobNames |-> IF n \in lost THEN None ELSE JobHolders[n]]
    BY <2>1, <2>2, AbstractTypes DEF Abstract!Put
  <2>4. Abstract!Revoke(lost)
    BY <1>7, <2>1, <2>3, AbstractUnwritten DEF RecoverJob, Abstract!Revoke
  <2> QED BY <2>1, <2>4 DEF Abstract!Next
<1>8. ASSUME NEW k \in Kinds, NEW c \in Tokens, ClaimJob(c, p, k) PROVE Abstract!Grant(c, <<p, k>>)
  <2>1. PICK row : row = [jobs[p][k] EXCEPT !.status = "in_progress", !.owner = c]
    OBVIOUS
  <2>2. StateOf(row) = "held" /\ HolderOf(row) = c
    BY <1>0, <2>1 DEF JobRows, StateOf, HolderOf
  <2>3. Abstract!Put(<<p, k>>, "held", c)
    BY <1>0, <1>8, <2>1, <2>2, AbstractWrite DEF ClaimJob
  <2>4. JobStates[<<p, k>>] = "waiting"
    BY <1>8, AbstractTypes DEF ClaimJob, StateOf
  <2>5. RunsAtWork[c] = None
    BY <1>8, AbstractTypes DEF ClaimJob, Fresh, WorkOf
  <2>6. \A n \in JobNames : JobHolders[n] # c
    BY <1>8 DEF ClaimJob, Fresh, HolderOf, JobHolders, JobNames
  <2>7. PICK run : /\ runs' = [runs EXCEPT ![c] = run]
                   /\ run.pc # "idle" /\ run.pod = p /\ run.kind = k
    <3>1. FirstPhase(k, jobs[p][k].cleanup) # "idle"
      BY DEF FirstPhase, Kinds
    <3>2. PICK run : run = [IdleRun EXCEPT !.pc = FirstPhase(k, jobs[p][k].cleanup),
                   !.pod = p, !.kind = k, !.cleanup = jobs[p][k].cleanup, !.steps = jobs[p][k].steps,
                   !.allow = CleanupCanTransition(jobs[p][k])]
      OBVIOUS
    <3>3. runs' = [runs EXCEPT ![c] = run]
      BY <1>8, <3>2 DEF ClaimJob
    <3>4. run.pc # "idle" /\ run.pod = p /\ run.kind = k
      BY <3>1, <3>2 DEF IdleRun
    <3> QED BY <3>3, <3>4
  <2>8. \A d \in Tokens : WorkOf(runs'[d]) = IF d = c THEN <<p, k>> ELSE RunsAtWork[d]
    BY <1>0, <2>7, AbstractTypes DEF TypeOK, WorkOf
  <2>9. RunsAtWork' = [RunsAtWork EXCEPT ![c] = <<p, k>>]
    BY <2>8, AbstractNext, AbstractTypes
  <2> QED BY <2>3, <2>4, <2>5, <2>6, <2>9 DEF Abstract!Grant
<1>9. "create" \in Kinds /\ "vm" \in Kinds
  BY DEF Kinds
<1> QED BY <1>1, <1>2, <1>3, <1>4, <1>5, <1>6, <1>7, <1>8, <1>9, AbstractTypes
DEF PodStep, Abstract!Next

\* The jobs of pods implement the abstract queue that JobQueue implements, for any
\* number of pods, VLANs and executions: what a pod's life does to its job rows
\* stays within what the queue promises.
THEOREM PodQueueImplemented == Spec => ImplementsQueue
<1>1. Init => Abstract!Init
  BY
  DEF Init, NoJob, IdleRun, JobNames, JobStates, JobHolders, RunsAtWork, StateOf, HolderOf,
      WorkOf, Abstract!Init
<1>2. IInv /\ [Next]_vars => [Abstract!Next]_(Abstract!vars)
  BY AbstractPodStep, AbstractRunStep, AbstractUnwritten DEF Next, vars, Abstract!vars
<1> QED BY <1>1, <1>2, PodInvariant, PTL DEF Spec, ImplementsQueue, Abstract!Spec
=============================================================================
