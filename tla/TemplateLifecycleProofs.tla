---------------------- MODULE TemplateLifecycleProofs ----------------------
(***************************************************************************)
(* Proofs about the template lifecycle, for every set of VMs, jobs and      *)
(* administrators and every retry limit: the inductive invariant IInv of    *)
(* TemplateLifecycle, and the properties that follow from it.  Three lemmas *)
(* say what a job, a request and the reconciler may do without disturbing   *)
(* the order; every action is shown to be of that kind, or to be a race.    *)
(***************************************************************************)
EXTENDS TemplateLifecycle, TLAPS

\* The fields of what is not there.
LEMMA Blank ==
  /\ NoJob \in JobRows /\ NoJob.type = "none" /\ NoJob.st = "none" /\ ~NoJob.clone /\ NoJob.vm = NoVM
  /\ NoJob.pc = "start"
  /\ NoReq \in Requests /\ NoReq.op = "idle" /\ NoReq.vm = NoVM /\ NoReq.cycle = 0
  /\ NoSweep \in Sweeps /\ NoSweep.pc = "idle" /\ NoSweep.vm = NoVM
<1>1. 0 \in 0 .. MaxRetries /\ 0 \in Nat
  BY TemplateAssumption
<1> QED BY <1>1 DEF NoJob, NoReq, NoSweep, JobRows, Requests, Sweeps, JobTypes

\* One row of each kind.
LEMMA OneOfEach ==
  ASSUME TypeOK
  PROVE  /\ row \in Rows /\ sweep \in Sweeps
         /\ \A v \in VMs : vm[v] \in Machines
         /\ \A j \in Jobs : job[j] \in JobRows
         /\ \A a \in Admins : req[a] \in Requests
BY DEF TypeOK

\* What happens to VMs as long as none is destroyed: nothing is lost, but for the
\* last verdict while the next one is being made.
Grown(m) ==
    \A v \in VMs :
       /\ vm[v].gen => m[v].gen
       /\ vm[v].snap => m[v].snap
       /\ row.st = "verifying" \/ (vm[v].proven => m[v].proven)
       /\ vm[v].st # "unused" => m[v].st = vm[v].st
       /\ row.src = "clone_skip" \/ (vm[v].on \/ vm[v].gen => m[v].on \/ m[v].gen)

\* The row after a step of a job: as it was, out of the state the job works on,
\* or with the VM the job has made.
JobMoves(o, n, r) ==
    /\ r.cycle = row.cycle /\ r.src = row.src
    /\ \/ r.st = row.st /\ r.vm = row.vm
       \/ /\ Current(o) /\ row.st \in Transient /\ r.st \notin Transient /\ r.vm = row.vm
          /\ RowOrderly'
       \/ /\ Busy(o) /\ row.st = "provisioning" /\ r.st = row.st /\ r.vm = n.vm /\ n.vm # NoVM
          /\ sweep.pc = "destroy" => n.vm # sweep.vm

\* The jobs and requests that are not part of a job's step still fit.
LEMMA BodyKeeps ==
  ASSUME TypeOK, Orderly, NEW j \in Jobs, NEW n \in JobRows, NEW r \in Rows, NEW m \in [VMs -> Machines],
         job' = [job EXCEPT ![j] = n], row' = r, vm' = m, UNCHANGED <<req, sweep>>,
         Wizard(n) => Wizard(job[j]) /\ n.type = job[j].type /\ n.cycle = job[j].cycle,
         Current(job[j]) /\ row.st \in Transient => Wizard(n),
         Grown(m), m # vm => Busy(job[j]), JobMoves(job[j], n, r), Known(n.vm)', JobFits(n)'
  PROVE  Orderly'
<1>1. job'[j] = n /\ \A k \in Jobs \ {j} : job'[k] = job[k]
  BY DEF TypeOK
<1>2. r.cycle = row.cycle /\ r.src = row.src
  BY DEF JobMoves
<1>3. ASSUME NEW k \in Jobs PROVE /\ Wizard(job'[k]) => Wizard(job[k])
                                  /\ Wizard(job'[k]) => job'[k].cycle = job[k].cycle
                                  /\ Current(job[k]) /\ row.st \in Transient => Wizard(job'[k])
  BY <1>1 DEF Wizard, Current
<1>4. OneWorker'
  BY <1>2, <1>3 DEF Orderly, OneWorker, Current, Enqueues, Wizard
<1>5. ASSUME NEW v, v \in VMs \cup {NoVM}, Known(v) PROVE Known(v)'
  BY <1>5 DEF Known, Grown
<1>6. /\ row.vm \in VMs \cup {NoVM} /\ sweep.vm \in VMs \cup {NoVM}
      /\ \A k \in Jobs : job[k].vm \in VMs \cup {NoVM}
      /\ \A a \in Admins : req[a].vm \in VMs \cup {NoVM}
  BY OneOfEach DEF Rows, Sweeps, JobRows, Requests
<1>7. AllKnown'
  <2>1. Known(row.vm) /\ Known(sweep.vm) /\ (\A k \in Jobs : Known(job[k].vm)) /\ \A a \in Admins : Known(req[a].vm)
    BY DEF Orderly, AllKnown
  <2>2. (\A k \in Jobs : Known(job[k].vm)) /\ \A k \in Jobs \ {j} : Known(job[k].vm)'
    BY <1>1, <1>5, <1>6, <2>1 DEF Known
  <2>3. Known(row.vm)'
    BY <1>5, <1>6, <2>1 DEF JobMoves, Known
  <2>4. Known(sweep.vm)' /\ \A a \in Admins : Known(req[a].vm)'
    BY <1>5, <1>6, <2>1 DEF Known
  <2> QED BY <1>1, <2>2, <2>3, <2>4 DEF AllKnown, Known
<1>8. CASE r.st = row.st /\ r.vm = row.vm
  <2>1. Served'
    BY <1>2, <1>3, <1>8 DEF Orderly, Served, Current, Enqueues, Wizard
  <2>2. RowOrderly'
    BY <1>2, <1>6, <1>8 DEF Orderly, RowOrderly, AllKnown, Known, Grown, There, Forgetting
  <2>3. SweepOrderly'
    BY <1>6, <1>8 DEF Orderly, SweepOrderly, AllKnown, Known, Grown
  <2>4. ASSUME NEW a \in Admins PROVE ReqFits(req[a])'
    <3>1. ReqFits(req[a])
      BY DEF Orderly
    <3>2. row.vm # NoVM => vm'[row.vm].st = vm[row.vm].st
      BY <1>6 DEF Orderly, AllKnown, Known, Grown
    <3> QED BY <1>2, <1>8, <3>1, <3>2 DEF ReqFits, Enqueues
  <2>5. ASSUME NEW k \in Jobs \ {j} PROVE JobFits(job[k])'
    <3>1. JobFits(job[k]) /\ job'[k] = job[k]
      BY <1>1 DEF Orderly
    <3>2. CASE m = vm
      BY <1>2, <1>8, <3>1, <3>2 DEF JobFits, Busy, Current, Wizard, StateOf, There
    <3>3. CASE m # vm
      <4>1. ~Current(job[k])
        BY <3>3 DEF Orderly, OneWorker, JobFits
      <4>2. ~Busy(job[k])
        BY <3>1, <4>1 DEF JobFits
      <4>3. ~Current(job[k])' /\ ~Busy(job[k])'
        BY <1>2, <3>1, <4>1, <4>2 DEF Current, Busy, Wizard
      <4> QED BY <4>3 DEF JobFits
    <3> QED BY <3>2, <3>3
  <2>6. \A k \in Jobs : JobFits(job[k])'
    BY <1>1, <2>5 DEF JobFits, Busy, Current, Wizard, StateOf
  <2> QED BY <1>4, <1>7, <2>1, <2>2, <2>3, <2>4, <2>6 DEF Orderly
<1>9. ASSUME Current(job[j]), row.st \in Transient, ~(r.st = row.st /\ r.vm = row.vm)
      PROVE  Orderly'
  <2>1. \A k \in Jobs \ {j} : ~Current(job[k]) /\ ~Busy(job[k])
    BY <1>9 DEF Orderly, OneWorker, JobFits
  <2>2. \A a \in Admins : ~Enqueues(req[a]) /\ (req[a].op # "idle" => req[a].cycle # row.cycle)
    BY <1>9 DEF Orderly, OneWorker, ReqFits, Enqueues
  <2>3. ASSUME NEW k \in Jobs \ {j} PROVE JobFits(job[k])'
    <3>1. ~Current(job[k])' /\ ~Busy(job[k])'
      BY <1>1, <1>2, <2>1 DEF Current, Busy, Wizard
    <3> QED BY <3>1 DEF JobFits
  <2>4. \A k \in Jobs : JobFits(job[k])'
    BY <1>1, <2>3 DEF JobFits, Busy, Current, Wizard, StateOf
  <2>5. \A a \in Admins : ReqFits(req[a])'
    BY <1>2, <2>2 DEF ReqFits, Enqueues
  <2>6. Served'
    BY <1>2, <1>3, <1>9 DEF Served, Current, Wizard
  <2>7. sweep.pc = "destroy" => sweep.vm # NoVM /\ row.vm # sweep.vm /\ vm[sweep.vm].st = "gone"
    BY <1>9 DEF Orderly, SweepOrderly, Transient
  <2>8. SweepOrderly'
    BY <1>6, <1>9, <2>7 DEF SweepOrderly, JobMoves, Grown
  <2>9. RowOrderly'
    BY <1>9 DEF JobMoves, RowOrderly
  <2> QED BY <1>4, <1>7, <2>4, <2>5, <2>6, <2>8, <2>9 DEF Orderly
<1>10. Busy(job[j]) => Current(job[j])
  BY DEF Orderly, JobFits
<1> QED BY <1>8, <1>9, <1>10 DEF JobMoves, Transient

\* A step of a job keeps the invariant if it moves the job, the row and the VMs in
\* that way whenever no race has happened.
LEMMA BodyStep ==
  ASSUME IInv, NEW j \in Jobs, NEW n \in JobRows, NEW r \in Rows, NEW m \in [VMs -> Machines],
         job' = [job EXCEPT ![j] = n], row' = r, vm' = m, UNCHANGED <<req, sweep>>,
         races' \subseteq Races, races \subseteq races', CloneHeld(n),
         Wizard(n) => Wizard(job[j]) /\ n.type = job[j].type /\ n.cycle = job[j].cycle,
         Orderly /\ Current(job[j]) /\ row.st \in Transient => Wizard(n),
         races' = {} /\ Orderly => /\ Grown(m) /\ (m # vm => Busy(job[j]))
                                   /\ JobMoves(job[j], n, r) /\ Known(n.vm)' /\ JobFits(n)'
  PROVE  IInv'
<1>1. TypeOK /\ ClonesHeld /\ (races = {} => Orderly)
  BY DEF IInv
<1>2. TypeOK'
  BY <1>1 DEF TypeOK
<1>3. job'[j] = n /\ \A k \in Jobs \ {j} : job'[k] = job[k]
  BY <1>1 DEF TypeOK
<1>4. ASSUME NEW k \in Jobs PROVE CloneHeld(job[k])'
  <2>1. CASE k = j
    BY <1>3, <2>1 DEF CloneHeld
  <2>2. CASE k # j
    <3>1. CloneHeld(job[k])
      BY <1>1 DEF ClonesHeld
    <3> QED BY <1>3, <2>2, <3>1 DEF CloneHeld
  <2> QED BY <2>1, <2>2
<1>5. ClonesHeld'
  BY <1>4 DEF ClonesHeld
<1>6. ASSUME races' = {} PROVE Orderly'
  <2>1. Orderly
    BY <1>1, <1>6
  <2>2. /\ Grown(m) /\ (m # vm => Busy(job[j])) /\ JobMoves(job[j], n, r)
        /\ Known(n.vm)' /\ JobFits(n)'
    BY <1>6, <2>1
  <2> QED BY <1>1, <2>1, <2>2, BodyKeeps
<1> QED BY <1>2, <1>5, <1>6 DEF IInv

\* What lease recovery, a retry and the end make of a job.
LEMMA JobShapes ==
  ASSUME TypeOK, NEW j \in Jobs
  PROVE  /\ Requeued(j) \in JobRows
         /\ Requeued(j).type = job[j].type /\ Requeued(j).cycle = job[j].cycle
         /\ Requeued(j).vm = job[j].vm /\ Requeued(j).clone = job[j].clone
         /\ Requeued(j).st = "pending" /\ Requeued(j).pc = "start"
         /\ job[j].tries < MaxRetries =>
              LET n == [Requeued(j) EXCEPT !.tries = @ + 1] IN
                /\ n \in JobRows /\ n.type = job[j].type /\ n.cycle = job[j].cycle
                /\ n.vm = job[j].vm /\ n.clone = job[j].clone
                /\ n.st = "pending" /\ n.pc = "start"
<1>1. PICK o : o = job[j]
  OBVIOUS
<1>2. o \in JobRows
  BY <1>1, OneOfEach
<1>3. o.tries \in 0 .. MaxRetries /\ MaxRetries \in Nat
  BY <1>2, TemplateAssumption DEF JobRows
<1>4. Requeued(j) = [o EXCEPT !.st = "pending", !.pc = "start", !.cleanup = @ \/ Armed(j)]
  BY <1>1 DEF Requeued
<1>5. PICK p : p = Requeued(j)
  OBVIOUS
<1>6. /\ p \in JobRows /\ p.type = o.type /\ p.cycle = o.cycle /\ p.vm = o.vm /\ p.clone = o.clone
      /\ p.st = "pending" /\ p.pc = "start" /\ p.tries = o.tries
  BY <1>2, <1>4, <1>5 DEF JobRows
<1>7. ASSUME o.tries < MaxRetries
      PROVE  LET n == [p EXCEPT !.tries = @ + 1] IN
                /\ n \in JobRows /\ n.type = o.type /\ n.cycle = o.cycle
                /\ n.vm = o.vm /\ n.clone = o.clone
                /\ n.st = "pending" /\ n.pc = "start"
  <2>1. p.tries + 1 \in 0 .. MaxRetries
    BY <1>3, <1>6, <1>7
  <2> QED BY <1>6, <2>1 DEF JobRows
<1> QED BY <1>1, <1>5, <1>6, <1>7

\* The claims on a job that is waiting, or on one whose template is at rest.
LEMMA JobWaits ==
  ASSUME NEW o, NEW n, JobFits(o), n.type = o.type, n.cycle = o.cycle, n.vm = o.vm,
         n.st = "pending", n.pc = "start",
         row'.st = row.st, row'.vm = row.vm, row'.cycle = row.cycle
  PROVE  JobFits(n)'
<1>1. n.pc \notin {"done", "activate"}
  OBVIOUS
<1> QED BY <1>1 DEF JobFits, Busy, Current, Wizard, StateOf

\* A job that is not at work fits a template at rest, or one of another cycle.
LEMMA JobOut ==
  ASSUME NEW n, ~Busy(n), row'.cycle = row.cycle, Current(n) => row'.st \notin Transient
  PROVE  JobFits(n)'
BY DEF JobFits, Busy, Current, Wizard

\* A job that goes back into the queue, and leaves everything else alone.
LEMMA Waits ==
  ASSUME IInv, NEW j \in Jobs, NEW n \in JobRows, job' = [job EXCEPT ![j] = n],
         UNCHANGED <<row, vm, req, sweep, races>>,
         n.type = job[j].type, n.cycle = job[j].cycle, n.vm = job[j].vm, n.clone = job[j].clone,
         n.st = "pending", n.pc = "start"
  PROVE  IInv'
<1>1. TypeOK /\ row \in Rows /\ vm \in [VMs -> Machines] /\ races \subseteq Races
  BY DEF IInv, TypeOK
<1>2. CloneHeld(n)
  BY DEF IInv, ClonesHeld, CloneHeld
<1>3. ASSUME Orderly
      PROVE  /\ Grown(vm) /\ JobMoves(job[j], n, row) /\ Known(n.vm)' /\ JobFits(n)'
  <2>1. Known(n.vm)'
    BY <1>3 DEF Orderly, AllKnown, Known
  <2>2. JobFits(n)'
    BY <1>3, JobWaits DEF Orderly
  <2> QED BY <2>1, <2>2 DEF Grown, JobMoves
<1>4. /\ (Wizard(n) => Wizard(job[j]) /\ n.type = job[j].type /\ n.cycle = job[j].cycle)
      /\ (Current(job[j]) => Wizard(n))
  BY DEF Wizard, Current
<1>5. PICK r : r = row
  OBVIOUS
<1>6. PICK m : m = vm
  OBVIOUS
<1> QED BY <1>1, <1>2, <1>3, <1>4, <1>5, <1>6, BodyStep

\* A job that is done with the template, which is at rest then.
LEMMA Leaves ==
  ASSUME IInv, NEW j \in Jobs, NEW n \in JobRows, NEW r \in Rows, NEW m \in [VMs -> Machines],
         job' = [job EXCEPT ![j] = n], row' = r, vm' = m, UNCHANGED <<req, sweep>>,
         races' \subseteq Races, races \subseteq races', CloneHeld(n),
         n.type = job[j].type, n.cycle = job[j].cycle, n.vm = job[j].vm,
         r.cycle = row.cycle, r.src = row.src, r.vm = row.vm,
         races' = {} /\ Orderly =>
           /\ Grown(m) /\ (m # vm => Busy(job[j]))
           /\ r.st # row.st => Current(job[j]) /\ row.st \in Transient /\ RowOrderly'
           /\ ~Busy(n) /\ (Current(n) => r.st \notin Transient)
  PROVE  IInv'
<1>1. /\ (Wizard(n) => Wizard(job[j]) /\ n.type = job[j].type /\ n.cycle = job[j].cycle)
      /\ (Current(job[j]) => Wizard(n))
  BY DEF Wizard, Current
<1>2. ASSUME races' = {}, Orderly
      PROVE  /\ Grown(m) /\ (m # vm => Busy(job[j])) /\ JobMoves(job[j], n, r)
             /\ Known(n.vm)' /\ JobFits(n)'
  <2>1. JobMoves(job[j], n, r)
    <3>1. CASE r.st = row.st
      BY <3>1 DEF JobMoves
    <3>2. CASE r.st # row.st
      <4>1. Current(job[j]) /\ row.st \in Transient /\ RowOrderly'
        BY <1>2, <3>2
      <4>2. r.st \notin Transient
        BY <1>2, <4>1 DEF Current, Wizard
      <4> QED BY <4>1, <4>2 DEF JobMoves
    <3> QED BY <3>1, <3>2
  <2>2. Known(n.vm)'
    <3>1. Known(job[j].vm) /\ n.vm \in VMs \cup {NoVM}
      BY <1>2 DEF Orderly, AllKnown, JobRows
    <3> QED BY <1>2, <3>1 DEF Known, Grown
  <2>3. JobFits(n)'
    BY <1>2, JobOut
  <2> QED BY <1>2, <2>1, <2>2, <2>3
<1> QED BY <1>1, <1>2, BodyStep

\* A job that goes on with its run.
LEMMA Runs ==
  ASSUME IInv, NEW j \in Jobs, NEW n \in JobRows, NEW m \in [VMs -> Machines],
         job' = [job EXCEPT ![j] = n], vm' = m, UNCHANGED <<row, req, sweep>>,
         races' \subseteq Races, races \subseteq races', CloneHeld(n),
         n.type = job[j].type, n.cycle = job[j].cycle,
         races' = {} /\ Orderly => /\ Grown(m) /\ (m # vm => Busy(job[j]))
                                   /\ Known(n.vm)' /\ JobFits(n)'
  PROVE  IInv'
<1>1. PICK r : r = row
  OBVIOUS
<1>2. r \in Rows /\ row' = r
  BY <1>1 DEF IInv, TypeOK
<1>3. /\ (Wizard(n) => Wizard(job[j]) /\ n.type = job[j].type /\ n.cycle = job[j].cycle)
      /\ (Current(job[j]) => Wizard(n))
  BY DEF Wizard, Current
<1>4. JobMoves(job[j], n, r)
  BY <1>1 DEF JobMoves
<1> QED BY <1>2, <1>3, <1>4, BodyStep

\* The row after a change of its state.
LEMMA RowShapes ==
  ASSUME row \in Rows, NEW s \in States \cup {"deleted"}, NEW r, r = [[row EXCEPT !.st = s] EXCEPT !.old = FALSE]
  PROVE  /\ r \in Rows /\ r.st = s /\ r.vm = row.vm /\ r.act = row.act
         /\ r.src = row.src /\ r.cycle = row.cycle
BY DEF Rows

\* The job that a state waits for has ended, and the template is still in that state.
Abandoned(j) ==
    /\ job'[j].st = "ended" /\ row'.st \in Transient
    /\ job[j].type = JobFor(row'.st) /\ job[j].cycle = row.cycle

\* A step of a job after which the races say what went wrong.
Recorded(j) ==
    /\ races' \subseteq Races /\ races \subseteq races'
    /\ races' = {} => Foreign(j) = {} /\ (Orderly => ~Abandoned(j))

\* A read or a mark that fails leaves its race, if the job ends with it.
LEMMA UnmarkedRecorded ==
  ASSUME TypeOK, NEW j \in Jobs, UNCHANGED row, races' = races \cup Unmarked(j)
  PROVE  Recorded(j)
<1>1. races \subseteq Races
  BY DEF TypeOK
<1>2. Foreign(j) = {}
  BY DEF Foreign
<1>3. Unmarked(j) \subseteq Races
  BY DEF Unmarked, Races
<1>4. races' = {} => job'[j].st # "ended"
  BY DEF Unmarked
<1> QED BY <1>1, <1>2, <1>3, <1>4 DEF Recorded, Abandoned

\* So does a mark by markTemplateError; one that is made takes the template out of the
\* state it was in.
LEMMA MarkRecorded ==
  ASSUME TypeOK, NEW j \in Jobs, MarkTemplateError(j)
  PROVE  Recorded(j)
<1>1. CASE UNCHANGED row /\ races' = races \cup Unmarked(j)
  BY <1>1, UnmarkedRecorded
<1>2. CASE /\ IF CanTransition(row.st, "error") THEN SetRow([row EXCEPT !.st = "error"]) ELSE UNCHANGED row
           /\ races' = races \cup Foreign(j)
  <2>1. races \subseteq Races /\ row \in Rows
    BY DEF TypeOK
  <2>2. Foreign(j) \subseteq Races
    BY DEF Foreign, Races
  <2>3. CanTransition(row.st, "error") <=> row.st \in Transient
    BY <2>1 DEF CanTransition, Transient, Rows, States
  <2>4. row'.st \notin Transient
    <3>1. CASE row.st \in Transient
      <4>1. row' = [[row EXCEPT !.st = "error"] EXCEPT !.old = FALSE]
        BY <1>2, <2>3, <3>1 DEF SetRow
      <4>2. row'.st = "error"
        BY <2>1, <4>1 DEF Rows
      <4> QED BY <4>2 DEF Transient
    <3>2. CASE row.st \notin Transient
      BY <1>2, <2>3, <3>2
    <3> QED BY <3>1, <3>2
  <2> QED BY <1>2, <2>1, <2>2, <2>4 DEF Recorded, Abandoned
<1> QED BY <1>1, <1>2 DEF MarkTemplateError

\* The same of verifyFailedToReady, for a verification; a revalidation has no mark to make.
LEMMA ToReadyRecorded ==
  ASSUME TypeOK, NEW j \in Jobs, job[j].type \in {"verify", "revalidate"}, VerifyFailedToReady(j)
  PROVE  Recorded(j)
<1>1. CASE UNCHANGED row /\ races' = races \cup Unmarked(j)
  BY <1>1, UnmarkedRecorded
<1>2. CASE /\ IF job[j].type = "verify" THEN UpdateTemplateLifecycleState("verifying", "ready") ELSE UNCHANGED row
           /\ races' = races \cup Foreign(j)
  <2>1. races \subseteq Races /\ row \in Rows
    BY DEF TypeOK
  <2>2. Foreign(j) \subseteq Races
    BY DEF Foreign, Races
  <2>3. job[j].type = "verify" => row'.st # "verifying"
    <3>1. CASE job[j].type = "verify" /\ row.st = "verifying"
      <4>1. row' = [[row EXCEPT !.st = "ready"] EXCEPT !.old = FALSE]
        BY <1>2, <3>1 DEF UpdateTemplateLifecycleState, SetRow
      <4> QED BY <2>1, <4>1 DEF Rows
    <3>2. CASE job[j].type = "verify" /\ row.st # "verifying"
      BY <1>2, <3>2 DEF UpdateTemplateLifecycleState
    <3> QED BY <3>1, <3>2
  <2>4. row'.st \in Transient => job[j].type # JobFor(row'.st)
    BY <2>3 DEF JobFor, Transient
  <2> QED BY <1>2, <2>1, <2>2, <2>4 DEF Recorded, Abandoned
<1> QED BY <1>1, <1>2 DEF VerifyFailedToReady

\* A job that says nothing about a template that is not waiting for it.
LEMMA PlainRecorded ==
  ASSUME TypeOK, NEW j \in Jobs, UNCHANGED <<row, races>>,
         Orderly /\ row.st \in Transient /\ job[j].cycle = row.cycle => job[j].type # JobFor(row.st)
  PROVE  Recorded(j)
<1>1. races \subseteq Races
  BY DEF TypeOK
<1>2. Foreign(j) = {}
  BY DEF Foreign
<1> QED BY <1>1, <1>2 DEF Recorded, Abandoned

\* A job that stops, for now or for good, with or without a word about its template:
\* the template has left the state the job worked on, the job is still there, or
\* what happened is recorded.
LEMMA Stops ==
  ASSUME IInv, NEW j \in Jobs, NEW n \in JobRows, NEW r \in Rows, NEW m \in [VMs -> Machines],
         job' = [job EXCEPT ![j] = n], row' = r, vm' = m, UNCHANGED <<req, sweep>>,
         Recorded(j), CloneHeld(n), n.type = job[j].type, n.cycle = job[j].cycle, n.vm = job[j].vm,
         (n.st = "pending" /\ n.pc = "start") \/ n.st = "ended",
         r.cycle = row.cycle, r.src = row.src, r.vm = row.vm,
         r.st # row.st => /\ Wizard(job[j]) /\ row.st \in Transient /\ r.st \notin Transient
                          /\ Orderly => RowOrderly',
         Orderly => Grown(m) /\ (m # vm => Busy(job[j]))
  PROVE  IInv'
<1>0. TypeOK /\ races \subseteq Races
  BY DEF IInv, TypeOK
<1>1. job'[j] = n
  BY <1>0 DEF TypeOK
<1>2. /\ races' \subseteq Races /\ races \subseteq races'
      /\ races' = {} => Foreign(j) = {} /\ (Orderly => ~Abandoned(j))
  BY DEF Recorded
<1>3. /\ (Wizard(n) => Wizard(job[j]) /\ n.type = job[j].type /\ n.cycle = job[j].cycle)
      /\ (Current(job[j]) => Wizard(n)) /\ (Current(n) <=> Current(job[j]))
  BY DEF Wizard, Current
<1>4. ~Busy(n)
  BY DEF Busy
<1>5. ASSUME races' = {}, Orderly
      PROVE  /\ Grown(m) /\ (m # vm => Busy(job[j])) /\ JobMoves(job[j], n, r)
             /\ Known(n.vm)' /\ JobFits(n)'
  <2>1. JobFits(job[j]) /\ Known(job[j].vm) /\ n.vm \in VMs \cup {NoVM}
    BY <1>5 DEF Orderly, AllKnown, JobRows
  <2>2. Known(n.vm)'
    BY <1>5, <2>1 DEF Known, Grown
  <2>3. JobMoves(job[j], n, r)
    <3>1. CASE r.st = row.st
      BY <3>1 DEF JobMoves
    <3>2. CASE r.st # row.st
      <4>1. job[j].cycle = row.cycle
        BY <1>2, <1>5, <3>2 DEF Foreign
      <4> QED BY <1>5, <3>2, <4>1 DEF JobMoves, Current
    <3> QED BY <3>1, <3>2
  <2>4. JobFits(n)'
    <3>1. CASE r.st # row.st
      BY <1>4, <3>1, JobOut
    <3>2. CASE r.st = row.st /\ n.st = "pending" /\ n.pc = "start"
      BY <2>1, <3>2, JobWaits
    <3>3. CASE r.st = row.st /\ n.st = "ended"
      <4>1. ASSUME Current(n), r.st \in Transient PROVE FALSE
        <5>1. row.st = StateOf(job[j]) /\ Wizard(job[j]) /\ job[j].cycle = row.cycle
          BY <1>3, <2>1, <3>3, <4>1 DEF JobFits, Current
        <5>2. job[j].type = JobFor(r.st)
          BY <3>3, <5>1 DEF JobFor, StateOf, Wizard
        <5> QED BY <1>1, <1>2, <1>5, <3>3, <4>1, <5>1, <5>2 DEF Abandoned
      <4> QED BY <1>4, <4>1, JobOut
    <3> QED BY <3>1, <3>2, <3>3
  <2> QED BY <1>5, <2>2, <2>3, <2>4
<1> QED BY <1>2, <1>3, <1>5, BodyStep

\* What a failed body makes of its job.
LEMMA FailedShapes ==
  ASSUME TypeOK, NEW j \in Jobs, Failed(j)
  PROVE  \E n \in JobRows :
           /\ job' = [job EXCEPT ![j] = n]
           /\ n.type = job[j].type /\ n.cycle = job[j].cycle
           /\ n.vm = job[j].vm /\ n.clone = job[j].clone
           /\ (n.st = "pending" /\ n.pc = "start") \/ n.st = "ended"
<1>1. CASE Retried(j)
  <2>1. PICK n : n = [Requeued(j) EXCEPT !.tries = @ + 1]
    OBVIOUS
  <2>2. /\ n \in JobRows /\ n.type = job[j].type /\ n.cycle = job[j].cycle
        /\ n.vm = job[j].vm /\ n.clone = job[j].clone /\ n.st = "pending" /\ n.pc = "start"
    BY <1>1, <2>1, JobShapes DEF Retried
  <2>3. job' = [job EXCEPT ![j] = n]
    BY <1>1, <2>1 DEF Put, Retried
  <2> QED BY <2>2, <2>3
<1>2. CASE Ended(j)
  <2>1. PICK n : n = [job[j] EXCEPT !.st = "ended"]
    OBVIOUS
  <2>2. /\ n \in JobRows /\ n.type = job[j].type /\ n.cycle = job[j].cycle
        /\ n.vm = job[j].vm /\ n.clone = job[j].clone /\ n.st = "ended"
    BY <2>1, OneOfEach DEF JobRows
  <2>3. job' = [job EXCEPT ![j] = n]
    BY <1>2, <2>1 DEF Put, Ended
  <2> QED BY <2>2, <2>3
<1>3. CASE Put(j, Requeued(j))
  <2>1. PICK n : n = Requeued(j)
    OBVIOUS
  <2>2. /\ n \in JobRows /\ n.type = job[j].type /\ n.cycle = job[j].cycle
        /\ n.vm = job[j].vm /\ n.clone = job[j].clone /\ n.st = "pending" /\ n.pc = "start"
    BY <2>1, JobShapes
  <2>3. job' = [job EXCEPT ![j] = n]
    BY <1>3, <2>1 DEF Put
  <2> QED BY <2>2, <2>3
<1> QED BY <1>1, <1>2, <1>3 DEF Failed

\* markTemplateError: the row is marked, or left as it is.
LEMMA ErrorShapes ==
  ASSUME TypeOK, NEW j \in Jobs, MarkTemplateError(j)
  PROVE  \E r \in Rows :
           /\ row' = r /\ r.cycle = row.cycle /\ r.src = row.src /\ r.vm = row.vm
           /\ r.st # row.st => r.st = "error" /\ row.st \in Transient
<1>0. row \in Rows
  BY DEF TypeOK
<1>1. CanTransition(row.st, "error") <=> row.st \in Transient
  BY <1>0 DEF CanTransition, Transient, Rows, States
<1>2. CASE UNCHANGED row
  BY <1>0, <1>2
<1>3. CASE row.st \in Transient /\ SetRow([row EXCEPT !.st = "error"])
  <2>1. PICK r : r = [[row EXCEPT !.st = "error"] EXCEPT !.old = FALSE]
    OBVIOUS
  <2>2. row' = r
    BY <1>3, <2>1 DEF SetRow
  <2>3. /\ r \in Rows /\ r.st = "error" /\ r.vm = row.vm
        /\ r.src = row.src /\ r.cycle = row.cycle
    BY <1>0, <2>1, RowShapes DEF States
  <2> QED BY <1>3, <2>2, <2>3
<1> QED BY <1>1, <1>2, <1>3 DEF MarkTemplateError

\* A run that fails and marks its template.
LEMMA FailsMarked ==
  ASSUME IInv, NEW j \in Jobs, NEW m \in [VMs -> Machines], vm' = m, UNCHANGED <<req, sweep>>,
         MarkTemplateError(j), Failed(j), Wizard(job[j]), ~job[j].clone,
         Orderly => Grown(m) /\ (m # vm => Busy(job[j]))
  PROVE  IInv'
<1>0. TypeOK
  BY DEF IInv
<1>1. PICK n \in JobRows :
           /\ job' = [job EXCEPT ![j] = n]
           /\ n.type = job[j].type /\ n.cycle = job[j].cycle
           /\ n.vm = job[j].vm /\ n.clone = job[j].clone
           /\ (n.st = "pending" /\ n.pc = "start") \/ n.st = "ended"
  BY <1>0, FailedShapes
<1>2. PICK r \in Rows :
           /\ row' = r /\ r.cycle = row.cycle /\ r.src = row.src /\ r.vm = row.vm
           /\ r.st # row.st => r.st = "error" /\ row.st \in Transient
  BY <1>0, ErrorShapes
<1>3. CloneHeld(n)
  BY <1>1 DEF CloneHeld
<1>4. r.st = "error" => RowOrderly' /\ r.st \notin Transient
  BY <1>2 DEF RowOrderly, Transient
<1>5. Recorded(j)
  BY <1>0, MarkRecorded
<1> QED BY <1>1, <1>2, <1>3, <1>4, <1>5, Stops

\* A job that fails without a word about its template.
LEMMA FailsPlain ==
  ASSUME IInv, NEW j \in Jobs, UNCHANGED <<row, vm, req, sweep>>, Failed(j), Recorded(j), ~job[j].clone
  PROVE  IInv'
<1>0. TypeOK /\ row \in Rows /\ vm \in [VMs -> Machines]
  BY DEF IInv, TypeOK
<1>1. PICK n \in JobRows :
           /\ job' = [job EXCEPT ![j] = n]
           /\ n.type = job[j].type /\ n.cycle = job[j].cycle
           /\ n.vm = job[j].vm /\ n.clone = job[j].clone
           /\ (n.st = "pending" /\ n.pc = "start") \/ n.st = "ended"
  BY <1>0, FailedShapes
<1>2. CloneHeld(n)
  BY <1>1 DEF CloneHeld
<1>3. Grown(vm)
  BY DEF Grown
<1>4. PICK r : r = row
  OBVIOUS
<1>5. PICK m : m = vm
  OBVIOUS
<1> QED BY <1>0, <1>1, <1>2, <1>3, <1>4, <1>5, Stops

\* RetryTemplateProvisionJob and FailTemplateProvisionJob.
LEMMA FailsProvision ==
  ASSUME IInv, NEW j \in Jobs, FailProvision(j), job[j].type = "provision"
  PROVE  IInv'
<1>0. TypeOK /\ row \in Rows /\ vm \in [VMs -> Machines] /\ races \subseteq Races
  BY DEF IInv, TypeOK
<1>1. UNCHANGED <<vm, req, sweep>> /\ ProvisionFailed(j)
  BY DEF FailProvision
<1>2. ~job[j].clone
  BY DEF IInv, ClonesHeld, CloneHeld
<1>3. CASE /\ job[j].tries < MaxRetries
           /\ Put(j, [Requeued(j) EXCEPT !.tries = @ + 1])
           /\ UNCHANGED <<row, races>>
  <2>1. PICK n : n = [Requeued(j) EXCEPT !.tries = @ + 1]
    OBVIOUS
  <2>2. /\ n \in JobRows /\ n.type = job[j].type /\ n.cycle = job[j].cycle
        /\ n.vm = job[j].vm /\ n.clone = job[j].clone /\ n.st = "pending" /\ n.pc = "start"
    BY <1>0, <1>3, <2>1, JobShapes
  <2>3. job' = [job EXCEPT ![j] = n]
    BY <1>3, <2>1 DEF Put
  <2> QED BY <1>1, <1>2, <1>3, <2>2, <2>3, Waits
<1>4. CASE row.st # "provisioning" /\ Put(j, Requeued(j)) /\ UNCHANGED <<row, races>>
  <2>1. PICK n : n = Requeued(j)
    OBVIOUS
  <2>2. /\ n \in JobRows /\ n.type = job[j].type /\ n.cycle = job[j].cycle
        /\ n.vm = job[j].vm /\ n.clone = job[j].clone /\ n.st = "pending" /\ n.pc = "start"
    BY <1>0, <1>4, <2>1, JobShapes
  <2>3. job' = [job EXCEPT ![j] = n]
    BY <1>4, <2>1 DEF Put
  <2> QED BY <1>1, <1>2, <1>4, <2>2, <2>3, Waits
<1>5. CASE /\ row.st = "provisioning" /\ SetRow([row EXCEPT !.st = "error"])
           /\ Ended(j) /\ races' = races \cup Foreign(j)
  <2>1. PICK n : n = [job[j] EXCEPT !.st = "ended"]
    OBVIOUS
  <2>2. /\ n \in JobRows /\ n.type = job[j].type /\ n.cycle = job[j].cycle
        /\ n.vm = job[j].vm /\ n.clone = job[j].clone /\ n.st = "ended"
    BY <1>0, <2>1, OneOfEach DEF JobRows
  <2>3. job' = [job EXCEPT ![j] = n]
    BY <1>5, <2>1 DEF Put, Ended
  <2>4. PICK r : r = [[row EXCEPT !.st = "error"] EXCEPT !.old = FALSE]
    OBVIOUS
  <2>5. row' = r
    BY <1>5, <2>4 DEF SetRow
  <2>6. /\ r \in Rows /\ r.st = "error" /\ r.vm = row.vm /\ r.src = row.src /\ r.cycle = row.cycle
    BY <1>0, <2>4, RowShapes DEF States
  <2>7. CloneHeld(n) /\ ~Busy(n)
    BY <1>2, <2>2 DEF CloneHeld, Busy
  <2>8. Grown(vm)
    BY DEF Grown
  <2>9. /\ races' \subseteq Races /\ races \subseteq races'
        /\ races' = {} => job[j].cycle = row.cycle
    BY <1>0, <1>5, <2>5, <2>6 DEF Foreign, Races
  <2>10. RowOrderly'
    BY <2>5, <2>6 DEF RowOrderly
  <2>11. races' = {} => Current(job[j]) /\ row.st \in Transient /\ r.st \notin Transient
    BY <1>5, <2>6, <2>9 DEF Current, Wizard, Transient
  <2>12. PICK m : m = vm
    OBVIOUS
  <2> QED BY <1>0, <1>1, <2>2, <2>3, <2>5, <2>6, <2>7, <2>8, <2>9, <2>10, <2>11, <2>12, Leaves
<1> QED BY <1>1, <1>3, <1>4, <1>5 DEF ProvisionFailed

\* A job that is over, and leaves everything else alone.
LEMMA Ends ==
  ASSUME IInv, NEW j \in Jobs, NEW n \in JobRows, job' = [job EXCEPT ![j] = n],
         UNCHANGED <<row, vm, req, sweep, races>>,
         n.type = job[j].type, n.cycle = job[j].cycle, n.vm = job[j].vm, CloneHeld(n), ~Busy(n),
         Orderly /\ Current(job[j]) => row.st \notin Transient
  PROVE  IInv'
<1>0. TypeOK /\ row \in Rows /\ vm \in [VMs -> Machines] /\ races \subseteq Races
  BY DEF IInv, TypeOK
<1>3. Current(n) <=> Current(job[j])
  BY DEF Current, Wizard
<1>4. Grown(vm)
  BY DEF Grown
<1>5. PICK r : r = row
  OBVIOUS
<1>6. PICK m : m = vm
  OBVIOUS
<1> QED BY <1>0, <1>3, <1>4, <1>5, <1>6, Leaves

\* A job that is over keeps all but its status.
LEMMA EndedShapes ==
  ASSUME TypeOK, NEW j \in Jobs, Ended(j)
  PROVE  \E n \in JobRows :
           /\ job' = [job EXCEPT ![j] = n]
           /\ n.type = job[j].type /\ n.cycle = job[j].cycle
           /\ n.vm = job[j].vm /\ n.clone = job[j].clone /\ n.st = "ended"
<1>1. PICK n : n = [job[j] EXCEPT !.st = "ended"]
  OBVIOUS
<1>2. /\ n \in JobRows /\ n.type = job[j].type /\ n.cycle = job[j].cycle
      /\ n.vm = job[j].vm /\ n.clone = job[j].clone /\ n.st = "ended"
  BY <1>1, OneOfEach DEF JobRows
<1> QED BY <1>1, <1>2 DEF Put, Ended

\* The places a run can be at.
LEMMA AtShapes ==
  ASSUME TypeOK, NEW j \in Jobs, NEW p \in {"boot", "advance", "snapshot", "ready", "activate", "done"}, At(j, p)
  PROVE  \E n \in JobRows :
           /\ job' = [job EXCEPT ![j] = n]
           /\ n.type = job[j].type /\ n.cycle = job[j].cycle
           /\ n.vm = job[j].vm /\ n.clone = job[j].clone /\ n.st = job[j].st /\ n.pc = p
<1>1. PICK n : n = [job[j] EXCEPT !.pc = p]
  OBVIOUS
<1>2. /\ n \in JobRows /\ n.type = job[j].type /\ n.cycle = job[j].cycle
      /\ n.vm = job[j].vm /\ n.clone = job[j].clone /\ n.st = job[j].st /\ n.pc = p
  BY <1>1, OneOfEach DEF JobRows
<1> QED BY <1>1, <1>2 DEF Put, At

\* The run that begins: it is of the row's cycle, or it is a race.
LEMMA BeginShapes ==
  ASSUME TypeOK, NEW j \in Jobs, NEW p \in {"clone", "guest", "off", "snapshot", "smoke"},
         Begin(j, p), Starts(j)
  PROVE  /\ \E n \in JobRows :
              /\ job' = [job EXCEPT ![j] = n]
              /\ n.type = job[j].type /\ n.cycle = job[j].cycle
              /\ n.vm = job[j].vm /\ n.clone = job[j].clone /\ n.st = "running" /\ n.pc = p
         /\ races \subseteq races' /\ races' \subseteq Races
         /\ races' = {} /\ Wizard(job[j]) => job[j].cycle = row.cycle
<1>1. PICK n : n = [job[j] EXCEPT !.st = "running", !.pc = p]
  OBVIOUS
<1>2. /\ n \in JobRows /\ n.type = job[j].type /\ n.cycle = job[j].cycle
      /\ n.vm = job[j].vm /\ n.clone = job[j].clone /\ n.st = "running" /\ n.pc = p
  BY <1>1, OneOfEach DEF JobRows
<1>3. job' = [job EXCEPT ![j] = n]
  BY <1>1 DEF Put, Begin
<1>4. /\ races \subseteq races' /\ races' \subseteq Races
      /\ races' = {} /\ Wizard(job[j]) => job[j].cycle = row.cycle
  BY DEF Starts, TypeOK, Races, Wizard
<1> QED BY <1>2, <1>3, <1>4

\* CompleteJob: the success of a body is recorded after the template has moved on.
LEMMA CompleteKeeps ==
  ASSUME IInv, NEW j \in Jobs, CompleteJob(j)
  PROVE  IInv'
<1>0. TypeOK
  BY DEF IInv
<1>1. /\ job[j].st = "running" /\ job[j].pc = "done" /\ Ended(j)
      /\ UNCHANGED <<row, vm, req, sweep, races>>
  BY DEF CompleteJob
<1>2. PICK n \in JobRows :
           /\ job' = [job EXCEPT ![j] = n]
           /\ n.type = job[j].type /\ n.cycle = job[j].cycle
           /\ n.vm = job[j].vm /\ n.clone = job[j].clone /\ n.st = "ended"
  BY <1>0, <1>1, EndedShapes
<1>3. ~n.clone
  BY <1>1, <1>2 DEF IInv, ClonesHeld, CloneHeld
<1>4. CloneHeld(n) /\ ~Busy(n)
  BY <1>2, <1>3 DEF CloneHeld, Busy
<1>5. Orderly /\ Current(job[j]) => row.st \notin Transient
  BY <1>1 DEF Orderly, JobFits
<1> QED BY <1>1, <1>2, <1>4, <1>5, Ends

\* Lease recovery after a worker has died.
LEMMA CrashKeeps ==
  ASSUME IInv, NEW j \in Jobs, WorkerCrash(j)
  PROVE  IInv'
<1>0. TypeOK
  BY DEF IInv
<1>1. PICK n : n = Requeued(j)
  OBVIOUS
<1>2. /\ n \in JobRows /\ n.type = job[j].type /\ n.cycle = job[j].cycle
      /\ n.vm = job[j].vm /\ n.clone = job[j].clone /\ n.st = "pending" /\ n.pc = "start"
  BY <1>0, <1>1, JobShapes
<1>3. job' = [job EXCEPT ![j] = n] /\ UNCHANGED <<row, vm, req, sweep, races>>
  BY <1>1 DEF Put, WorkerCrash
<1> QED BY <1>2, <1>3, Waits

\* ProvisionTemplate: the claim, a template beyond provisioning, or one it cannot work on.
LEMMA ProvisionKeeps ==
  ASSUME IInv, NEW j \in Jobs, ProvisionTemplate(j)
  PROVE  IInv'
<1>0. TypeOK
  BY DEF IInv
<1>1. job[j].st = "pending" /\ job[j].type = "provision"
  BY DEF ProvisionTemplate, Claimed
<1>2. ~job[j].clone
  BY <1>1 DEF IInv, ClonesHeld, CloneHeld
<1>3. CASE row.st = "provisioning" /\ Begin(j, "clone") /\ Starts(j) /\ UNCHANGED <<row, vm, req, sweep>>
  <2>1. PICK n \in JobRows :
              /\ job' = [job EXCEPT ![j] = n]
              /\ n.type = job[j].type /\ n.cycle = job[j].cycle
              /\ n.vm = job[j].vm /\ n.clone = job[j].clone /\ n.st = "running" /\ n.pc = "clone"
    BY <1>0, <1>3, BeginShapes
  <2>2. /\ races \subseteq races' /\ races' \subseteq Races
        /\ races' = {} /\ Wizard(job[j]) => job[j].cycle = row.cycle
    BY <1>0, <1>3, BeginShapes
  <2>3. CloneHeld(n)
    BY <1>2, <2>1 DEF CloneHeld
  <2>4. Grown(vm)
    BY DEF Grown
  <2>5. ASSUME races' = {}, Orderly PROVE Known(n.vm)' /\ JobFits(n)'
    <3>1. Known(n.vm)'
      BY <1>3, <2>1, <2>5 DEF Orderly, AllKnown, Known
    <3>2. Current(n)' /\ row'.st = StateOf(n)
      BY <1>1, <1>3, <2>1, <2>2, <2>5 DEF Current, Wizard, StateOf
    <3> QED BY <1>1, <2>1, <3>1, <3>2 DEF JobFits, StateOf
  <2>6. PICK m : m = vm
    OBVIOUS
  <2>7. m \in [VMs -> Machines] /\ vm' = m
    BY <1>0, <1>3, <2>6 DEF TypeOK
  <2> QED BY <1>3, <2>1, <2>2, <2>3, <2>4, <2>5, <2>6, <2>7, Runs
<1>4. CASE TemplateProvisionedBeyond(row.st) /\ Ended(j) /\ UNCHANGED <<row, vm, req, sweep, races>>
  <2>1. PICK n \in JobRows :
           /\ job' = [job EXCEPT ![j] = n]
           /\ n.type = job[j].type /\ n.cycle = job[j].cycle
           /\ n.vm = job[j].vm /\ n.clone = job[j].clone /\ n.st = "ended"
    BY <1>0, <1>4, EndedShapes
  <2>2. CloneHeld(n) /\ ~Busy(n)
    BY <1>2, <2>1 DEF CloneHeld, Busy
  <2>3. Orderly /\ Current(job[j]) => row.st \notin Transient
    BY <1>1, <1>4 DEF Orderly, JobFits, StateOf, TemplateProvisionedBeyond
  <2> QED BY <1>4, <2>1, <2>2, <2>3, Ends
<1>5. CASE FailProvision(j)
  BY <1>1, <1>5, FailsProvision
<1> QED BY <1>3, <1>4, <1>5 DEF ProvisionTemplate

\* The VM a provision has made or taken over is nobody's prey.
LEMMA MadeKeeps ==
  ASSUME IInv, NEW j \in Jobs, Running(j, "provision", "clone"), NEW v \in VMs,
         \/ There(v) /\ vm' = vm
         \/ v \in Fresh /\ vm' = Created(v),
         Put(j, [job[j] EXCEPT !.vm = v, !.pc = "record"]), UNCHANGED <<row, req, sweep, races>>
  PROVE  IInv'
<1>0. TypeOK /\ races \subseteq Races
  BY DEF IInv, TypeOK
<1>1. job[j].st = "running" /\ job[j].type = "provision" /\ job[j].pc = "clone"
  BY DEF Running
<1>2. ~job[j].clone
  BY <1>1 DEF IInv, ClonesHeld, CloneHeld
<1>3. PICK n : n = [job[j] EXCEPT !.vm = v, !.pc = "record"]
  OBVIOUS
<1>4. /\ n \in JobRows /\ n.type = job[j].type /\ n.cycle = job[j].cycle
      /\ n.vm = v /\ n.clone = job[j].clone /\ n.st = "running" /\ n.pc = "record"
  BY <1>0, <1>1, <1>3, OneOfEach DEF JobRows
<1>5. job' = [job EXCEPT ![j] = n]
  BY <1>3 DEF Put
<1>6. PICK m : m = vm'
  OBVIOUS
<1>7. /\ m \in [VMs -> Machines] /\ Grown(m) /\ m[v].st = "there"
      /\ \A w \in VMs \ {v} : m[w] = vm[w]
      /\ vm[v].st \in {"there", "unused"}
  <2>1. CASE There(v) /\ vm' = vm
    BY <1>0, <1>6, <2>1 DEF TypeOK, There, Grown
  <2>2. CASE v \in Fresh /\ vm' = Created(v)
    <3>1. PICK o : o = [vm[v] EXCEPT !.st = "there"]
      OBVIOUS
    <3>2. /\ o \in Machines /\ o.st = "there" /\ o.gen = vm[v].gen /\ o.on = vm[v].on
          /\ o.snap = vm[v].snap /\ o.proven = vm[v].proven
      BY <1>0, <3>1, OneOfEach DEF Machines
    <3>3. m = [vm EXCEPT ![v] = o]
      BY <1>6, <2>2, <3>1 DEF Created
    <3>4. m \in [VMs -> Machines] /\ m[v] = o /\ \A w \in VMs \ {v} : m[w] = vm[w]
      BY <1>0, <3>2, <3>3 DEF TypeOK
    <3>5. vm[v].st = "unused"
      BY <2>2 DEF Fresh
    <3> QED BY <3>2, <3>4, <3>5 DEF Grown
  <2> QED BY <2>1, <2>2
<1>8. Busy(job[j]) /\ CloneHeld(n)
  BY <1>1, <1>2, <1>4 DEF Busy, Wizard, CloneHeld
<1>9. ASSUME Orderly PROVE Known(n.vm)' /\ JobFits(n)'
  <2>1. Current(job[j]) /\ row.st = "provisioning"
    BY <1>1, <1>8, <1>9 DEF Orderly, JobFits, StateOf
  <2>2. sweep.pc = "destroy" => sweep.vm # v
    <3>1. sweep.pc = "destroy" => vm[sweep.vm].st = "gone"
      BY <1>9, <2>1 DEF Orderly, SweepOrderly
    <3> QED BY <1>7, <3>1
  <2>3. v # NoVM
    BY TemplateAssumption
  <2>4. Known(n.vm)'
    BY <1>4, <1>6, <1>7 DEF Known
  <2>5. Current(n)' /\ row'.st = "provisioning"
    BY <1>4, <2>1 DEF Current, Wizard
  <2> QED BY <1>1, <1>4, <2>2, <2>3, <2>4, <2>5 DEF JobFits, StateOf
<1> QED BY <1>0, <1>4, <1>5, <1>6, <1>7, <1>8, <1>9, Runs

\* CloneTemplateSourceVM and CreateBlankVM.
LEMMA CloneKeeps ==
  ASSUME IInv, NEW j \in Jobs, CloneTemplateSourceVM(j) \/ CreateBlankVM(j)
  PROVE  IInv'
<1>1. Running(j, "provision", "clone") /\ job[j].type = "provision"
  BY DEF CloneTemplateSourceVM, CreateBlankVM, Running
<1>2. CASE \E v \in Named : /\ Put(j, [job[j] EXCEPT !.vm = v, !.pc = "record"])
                            /\ UNCHANGED <<row, vm, req, sweep, races>>
  BY <1>1, <1>2, MadeKeeps DEF Named
<1>3. CASE \E v \in Fresh : /\ vm' = Created(v) /\ Put(j, [job[j] EXCEPT !.vm = v, !.pc = "record"])
                            /\ UNCHANGED <<row, req, sweep, races>>
  BY <1>1, <1>3, MadeKeeps DEF Fresh
<1>4. CASE FailProvision(j)
  BY <1>1, <1>4, FailsProvision
<1> QED BY <1>2, <1>3, <1>4 DEF CloneTemplateSourceVM, CreateBlankVM

\* SetTemplateVCenterVM: the row takes the VM the run has made.
LEMMA RecordKeeps ==
  ASSUME IInv, NEW j \in Jobs, ProvisionRecord(j)
  PROVE  IInv'
<1>0. TypeOK /\ row \in Rows /\ vm \in [VMs -> Machines] /\ races \subseteq Races
  BY DEF IInv, TypeOK
<1>a. job[j].st = "running" /\ job[j].type = "provision" /\ job[j].pc = "record"
  BY DEF ProvisionRecord, Running
<1>b. CASE FailProvision(j)
  BY <1>a, <1>b, FailsProvision
<1> SUFFICES ASSUME SetTemplateVCenterVM(job[j].vm), At(j, "boot"), UNCHANGED <<vm, req, sweep, races>>
             PROVE  IInv'
  BY <1>b DEF ProvisionRecord
<1>1. /\ job[j].st = "running" /\ job[j].type = "provision" /\ job[j].pc = "record"
      /\ SetTemplateVCenterVM(job[j].vm) /\ At(j, "boot") /\ UNCHANGED <<vm, req, sweep, races>>
  BY <1>a
<1>2. PICK n \in JobRows :
           /\ job' = [job EXCEPT ![j] = n]
           /\ n.type = job[j].type /\ n.cycle = job[j].cycle
           /\ n.vm = job[j].vm /\ n.clone = job[j].clone /\ n.st = job[j].st /\ n.pc = "boot"
  BY <1>0, <1>1, AtShapes
<1>3. CloneHeld(n)
  BY <1>1, <1>2 DEF IInv, ClonesHeld, CloneHeld
<1>4. job[j].vm \in VMs \cup {NoVM}
  BY <1>0, OneOfEach DEF JobRows
<1>5. PICK w : w = job[j].vm
  OBVIOUS
<1>6. PICK r \in Rows : /\ row' = r /\ r.st = row.st /\ r.cycle = row.cycle /\ r.src = row.src
                        /\ Exists => r.vm = w
  <2>1. CASE Exists
    <3>1. PICK r : r = [[row EXCEPT !.vm = w] EXCEPT !.old = FALSE]
      OBVIOUS
    <3>2. r \in Rows /\ r.st = row.st /\ r.cycle = row.cycle /\ r.src = row.src /\ r.vm = w
      BY <1>0, <1>4, <1>5, <3>1 DEF Rows
    <3>3. row' = r
      BY <1>1, <1>5, <2>1, <3>1 DEF SetTemplateVCenterVM, SetRow
    <3> QED BY <3>2, <3>3
  <2>2. CASE ~Exists
    BY <1>0, <1>1, <2>2 DEF SetTemplateVCenterVM
  <2> QED BY <2>1, <2>2
<1>7. ASSUME Orderly PROVE JobMoves(job[j], n, r) /\ Known(n.vm)' /\ JobFits(n)'
  <2>1. Busy(job[j])
    BY <1>1 DEF Busy, Wizard
  <2>2. Current(job[j]) /\ row.st = "provisioning" /\ w # NoVM /\ (sweep.pc = "destroy" => w # sweep.vm)
    BY <1>1, <1>5, <1>7, <2>1 DEF Orderly, JobFits, StateOf
  <2>3. r.vm = w
    BY <1>6, <2>2 DEF Exists, States
  <2>4. JobMoves(job[j], n, r)
    BY <1>2, <1>5, <1>6, <2>1, <2>2, <2>3 DEF JobMoves
  <2>5. Known(n.vm)'
    BY <1>1, <1>2, <1>7 DEF Orderly, AllKnown, Known
  <2>6. Current(n)' /\ row'.st = "provisioning"
    BY <1>2, <1>6, <2>2 DEF Current, Wizard
  <2> QED BY <1>1, <1>2, <1>5, <1>6, <2>2, <2>3, <2>4, <2>5, <2>6 DEF JobFits, StateOf
<1>8. Grown(vm)
  BY DEF Grown
<1>9. /\ (Wizard(n) => Wizard(job[j]) /\ n.type = job[j].type /\ n.cycle = job[j].cycle)
      /\ (Current(job[j]) => Wizard(n))
  BY <1>2 DEF Wizard, Current
<1>10. PICK m : m = vm
  OBVIOUS
<1> QED BY <1>0, <1>1, <1>2, <1>3, <1>6, <1>7, <1>8, <1>9, <1>10, BodyStep

\* One VM changes.
LEMMA OneVM ==
  ASSUME TypeOK, NEW v \in VMs, NEW o \in Machines, NEW m, m = [vm EXCEPT ![v] = o]
  PROVE  m \in [VMs -> Machines] /\ m[v] = o /\ \A w \in VMs \ {v} : m[w] = vm[w]
BY DEF TypeOK

\* The staging VM is up, or its provision fails.
LEMMA BootKeeps ==
  ASSUME IInv, NEW j \in Jobs, ProvisionBoot(j)
  PROVE  IInv'
<1>0. TypeOK /\ races \subseteq Races
  BY DEF IInv, TypeOK
<1>1. job[j].st = "running" /\ job[j].type = "provision" /\ job[j].pc = "boot"
  BY DEF ProvisionBoot, Running
<1>2. CASE FailProvision(j)
  BY <1>1, <1>2, FailsProvision
<1>3. ASSUME NEW on \in BOOLEAN, There(job[j].vm), vm' = [vm EXCEPT ![job[j].vm].on = on],
             races' = (IF on THEN races ELSE races \cup {"stopped"}), At(j, "advance"),
             UNCHANGED <<row, req, sweep>>
      PROVE  IInv'
  <2>1. PICK n \in JobRows :
           /\ job' = [job EXCEPT ![j] = n]
           /\ n.type = job[j].type /\ n.cycle = job[j].cycle
           /\ n.vm = job[j].vm /\ n.clone = job[j].clone /\ n.st = job[j].st /\ n.pc = "advance"
    BY <1>0, <1>3, AtShapes
  <2>2. CloneHeld(n) /\ Busy(job[j])
    BY <1>1, <2>1 DEF IInv, ClonesHeld, CloneHeld, Busy, Wizard
  <2>3. PICK v : v = job[j].vm
    OBVIOUS
  <2>4. v \in VMs /\ vm[v].st = "there"
    BY <1>3, <2>3 DEF There
  <2>5. PICK o : o = [vm[v] EXCEPT !.on = on]
    OBVIOUS
  <2>6. /\ o \in Machines /\ o.st = "there" /\ o.gen = vm[v].gen /\ o.on = on
        /\ o.snap = vm[v].snap /\ o.proven = vm[v].proven
    BY <1>0, <2>4, <2>5, OneOfEach DEF Machines
  <2>7. PICK m : m = [vm EXCEPT ![v] = o]
    OBVIOUS
  <2>8. m \in [VMs -> Machines] /\ m[v] = o /\ \A w \in VMs \ {v} : m[w] = vm[w]
    BY <1>0, <2>4, <2>6, <2>7, Zenon DEF TypeOK
  <2>9. vm' = m
    BY <1>3, <2>3, <2>5, <2>7
  <2>10. races \subseteq races' /\ races' \subseteq Races /\ (races' = {} => on)
    BY <1>0, <1>3 DEF Races
  <2>11. races' = {} => Grown(m)
    BY <2>4, <2>6, <2>8, <2>10 DEF Grown
  <2>12. ASSUME races' = {}, Orderly PROVE Known(n.vm)' /\ JobFits(n)'
    <3>1. Current(job[j]) /\ row.st = "provisioning" /\ v # NoVM /\ row.vm = v /\ (sweep.pc = "destroy" => v # sweep.vm)
      BY <1>1, <2>2, <2>3, <2>12 DEF Orderly, JobFits, StateOf
    <3>2. Known(n.vm)' /\ vm'[n.vm].on
      BY <2>1, <2>3, <2>4, <2>6, <2>8, <2>9, <2>10, <2>12 DEF Known
    <3>3. Current(n)' /\ row'.st = "provisioning" /\ row'.vm = v
      BY <1>3, <2>1, <3>1 DEF Current, Wizard
    <3> QED BY <1>1, <1>3, <2>1, <2>3, <3>1, <3>2, <3>3 DEF JobFits, StateOf
  <2> QED BY <1>3, <2>1, <2>2, <2>8, <2>9, <2>10, <2>11, <2>12, Runs
<1> QED BY <1>2, <1>3 DEF ProvisionBoot

\* The row leaves the state its job works on.
LEMMA MoveShapes ==
  ASSUME TypeOK, NEW j \in Jobs, NEW s \in States, NEW t \in States, s # t, row.st = s,
         UpdateTemplateLifecycleState(s, t), races' = races \cup Foreign(j)
  PROVE  \E r \in Rows :
           /\ row' = r /\ r.cycle = row.cycle /\ r.src = row.src /\ r.vm = row.vm /\ r.st = t
           /\ races' \subseteq Races /\ races \subseteq races'
           /\ races' = {} => job[j].cycle = row.cycle
<1>1. row \in Rows /\ races \subseteq Races
  BY DEF TypeOK
<1>2. PICK r : r = [[row EXCEPT !.st = t] EXCEPT !.old = FALSE]
  OBVIOUS
<1>3. row' = r
  BY <1>2 DEF UpdateTemplateLifecycleState, SetRow
<1>4. r \in Rows /\ r.st = t /\ r.vm = row.vm /\ r.src = row.src /\ r.cycle = row.cycle
  BY <1>1, <1>2, RowShapes
<1>5. /\ races' \subseteq Races /\ races \subseteq races'
      /\ races' = {} => job[j].cycle = row.cycle
  BY <1>1, <1>3, <1>4 DEF Foreign, Races
<1> QED BY <1>3, <1>4, <1>5

\* provisioning -> configuring, with a VM that is on.
LEMMA AdvanceKeeps ==
  ASSUME IInv, NEW j \in Jobs, ProvisionAdvance(j)
  PROVE  IInv'
<1>0. TypeOK /\ row \in Rows /\ vm \in [VMs -> Machines] /\ races \subseteq Races
  BY DEF IInv, TypeOK
<1>1. job[j].st = "running" /\ job[j].type = "provision" /\ job[j].pc = "advance"
  BY DEF ProvisionAdvance, Running
<1>2. ~job[j].clone
  BY <1>1 DEF IInv, ClonesHeld, CloneHeld
<1>3. Busy(job[j])
  BY <1>1 DEF Busy, Wizard
<1>4. CASE FailProvision(j)
  BY <1>1, <1>4, FailsProvision
<1>5. CASE TemplateProvisionedBeyond(row.st) /\ Ended(j) /\ UNCHANGED <<row, vm, req, sweep, races>>
  <2>1. PICK n \in JobRows :
           /\ job' = [job EXCEPT ![j] = n]
           /\ n.type = job[j].type /\ n.cycle = job[j].cycle
           /\ n.vm = job[j].vm /\ n.clone = job[j].clone /\ n.st = "ended"
    BY <1>0, <1>5, EndedShapes
  <2>2. CloneHeld(n) /\ ~Busy(n)
    BY <1>2, <2>1 DEF CloneHeld, Busy
  <2>3. Orderly /\ Current(job[j]) => row.st \notin Transient
    BY <1>1, <1>3, <1>5 DEF Orderly, JobFits, StateOf, TemplateProvisionedBeyond
  <2> QED BY <1>5, <2>1, <2>2, <2>3, Ends
<1>6. CASE /\ row.st = "provisioning" /\ UpdateTemplateLifecycleState("provisioning", "configuring")
           /\ races' = races \cup Foreign(j) /\ Returned(j) /\ UNCHANGED <<vm, req, sweep>>
  <2>1. PICK n \in JobRows :
           /\ job' = [job EXCEPT ![j] = n]
           /\ n.type = job[j].type /\ n.cycle = job[j].cycle
           /\ n.vm = job[j].vm /\ n.clone = job[j].clone /\ n.st = job[j].st /\ n.pc = "done"
    BY <1>0, <1>6, AtShapes DEF Returned
  <2>2. PICK r \in Rows :
           /\ row' = r /\ r.cycle = row.cycle /\ r.src = row.src /\ r.vm = row.vm /\ r.st = "configuring"
           /\ races' \subseteq Races /\ races \subseteq races'
           /\ races' = {} => job[j].cycle = row.cycle
    BY <1>0, <1>6, MoveShapes DEF States
  <2>3. CloneHeld(n) /\ ~Busy(n)
    BY <1>2, <2>1 DEF CloneHeld, Busy
  <2>4. ASSUME races' = {}, Orderly PROVE Current(job[j]) /\ row.st \in Transient /\ RowOrderly'
    <3>1. Current(job[j]) /\ row.vm = job[j].vm /\ (vm[row.vm].on \/ vm[row.vm].gen)
      BY <1>1, <1>3, <2>4 DEF Orderly, JobFits
    <3> QED BY <1>6, <2>2, <3>1 DEF RowOrderly, Transient
  <2>5. r.st \notin Transient
    BY <2>2 DEF Transient
  <2>6. Grown(vm)
    BY DEF Grown
  <2>7. PICK m : m = vm
    OBVIOUS
  <2> QED BY <1>0, <1>6, <2>1, <2>2, <2>3, <2>4, <2>5, <2>6, <2>7, Leaves
<1> QED BY <1>4, <1>5, <1>6 DEF ProvisionAdvance

\* GeneralizeTemplate: a VM that is off already counts as generalized.
LEMMA GeneralizeKeeps ==
  ASSUME IInv, NEW j \in Jobs, GeneralizeTemplate(j)
  PROVE  IInv'
<1>0. TypeOK
  BY DEF IInv
<1>1. job[j].st = "pending" /\ job[j].type = "generalize"
  BY DEF GeneralizeTemplate, Claimed
<1>2. ~job[j].clone
  BY <1>1 DEF IInv, ClonesHeld, CloneHeld
<1>3. CASE row.st # "generalizing" /\ FailPlain(j)
  <2>1. row.st \in Transient => job[j].type # JobFor(row.st)
    BY <1>1, <1>3 DEF JobFor, Transient
  <2>2. Recorded(j)
    BY <1>0, <1>3, <2>1, PlainRecorded DEF FailPlain
  <2> QED BY <1>2, <1>3, <2>2, FailsPlain DEF FailPlain
<1>5. CASE Failed(j) /\ races' = races \cup Unmarked(j) /\ UNCHANGED <<row, vm, req, sweep>>
  <2>1. Recorded(j)
    BY <1>0, <1>5, UnmarkedRecorded
  <2> QED BY <1>2, <1>5, <2>1, FailsPlain
<1>4. ASSUME NEW p \in {"off", "snapshot", "guest"}, row.st = "generalizing", Begin(j, p), Starts(j),
             UNCHANGED <<row, vm, req, sweep>>,
             p = "off" => row.src = "clone_skip",
             p = "snapshot" => There(job[j].vm) /\ ~vm[job[j].vm].on
      PROVE  IInv'
  <2>1. PICK n \in JobRows :
              /\ job' = [job EXCEPT ![j] = n]
              /\ n.type = job[j].type /\ n.cycle = job[j].cycle
              /\ n.vm = job[j].vm /\ n.clone = job[j].clone /\ n.st = "running" /\ n.pc = p
    BY <1>0, <1>4, BeginShapes
  <2>2. /\ races \subseteq races' /\ races' \subseteq Races
        /\ races' = {} /\ Wizard(job[j]) => job[j].cycle = row.cycle
    BY <1>0, <1>4, BeginShapes
  <2>3. CloneHeld(n)
    BY <1>2, <2>1 DEF CloneHeld
  <2>4. Grown(vm)
    BY DEF Grown
  <2>5. ASSUME races' = {}, Orderly PROVE Known(n.vm)' /\ JobFits(n)'
    <3>1. Known(n.vm)'
      BY <1>4, <2>1, <2>5 DEF Orderly, AllKnown, Known
    <3>2. Current(job[j]) /\ StateOf(n) = "generalizing"
      BY <1>1, <2>1, <2>2, <2>5 DEF Current, Wizard, StateOf
    <3>3. row.vm = n.vm /\ row.vm # NoVM
      BY <1>1, <1>4, <2>1, <2>5, <3>2 DEF Orderly, JobFits, Transient
    <3>4. p = "snapshot" => row.src = "clone_skip" \/ vm[n.vm].gen
      BY <1>4, <2>1, <2>5, <3>3 DEF Orderly, RowOrderly
    <3>5. Current(n)' /\ row'.st = "generalizing"
      BY <1>4, <2>1, <3>2 DEF Current, Wizard
    <3> QED BY <1>1, <1>4, <2>1, <3>1, <3>2, <3>3, <3>4, <3>5 DEF JobFits
  <2>6. PICK m : m = vm
    OBVIOUS
  <2>7. m \in [VMs -> Machines] /\ vm' = m
    BY <1>0, <1>4, <2>6 DEF TypeOK
  <2> QED BY <1>4, <2>1, <2>2, <2>3, <2>4, <2>5, <2>6, <2>7, Runs
<1> QED BY <1>3, <1>4, <1>5 DEF GeneralizeTemplate

\* The run of a generalization: what it does to its VM, and where it goes.
LEMMA GuestRuns ==
  ASSUME IInv, NEW j \in Jobs, job[j].st = "running", job[j].type = "generalize",
         job[j].pc \in {"guest", "off", "snapshot", "ready"}, There(job[j].vm),
         NEW o \in Machines, vm' = [vm EXCEPT ![job[j].vm] = o],
         o.st = "there", o.proven = vm[job[j].vm].proven,
         vm[job[j].vm].gen => o.gen, vm[job[j].vm].snap => o.snap,
         Orderly => row.src = "clone_skip" \/ o.gen \/ o.on = vm[job[j].vm].on,
         NEW p \in {"snapshot", "ready"}, At(j, p), UNCHANGED <<row, req, sweep, races>>,
         Orderly => row.src = "clone_skip" \/ o.gen, p = "ready" => o.snap
  PROVE  IInv'
<1>0. TypeOK /\ races \subseteq Races
  BY DEF IInv, TypeOK
<1>1. PICK n \in JobRows :
           /\ job' = [job EXCEPT ![j] = n]
           /\ n.type = job[j].type /\ n.cycle = job[j].cycle
           /\ n.vm = job[j].vm /\ n.clone = job[j].clone /\ n.st = job[j].st /\ n.pc = p
  BY <1>0, AtShapes
<1>2. CloneHeld(n) /\ Busy(job[j])
  BY <1>1 DEF IInv, ClonesHeld, CloneHeld, Busy, Wizard
<1>3. PICK v : v = job[j].vm
  OBVIOUS
<1>4. v \in VMs /\ vm[v].st = "there"
  BY <1>3 DEF There
<1>5. PICK m : m = [vm EXCEPT ![v] = o]
  OBVIOUS
<1>6. m \in [VMs -> Machines] /\ m[v] = o /\ \A w \in VMs \ {v} : m[w] = vm[w]
  BY <1>0, <1>4, <1>5, Zenon DEF TypeOK
<1>7. vm' = m
  BY <1>3, <1>5
<1>8. Orderly => Grown(m)
  BY <1>3, <1>4, <1>6 DEF Grown
<1>9. ASSUME Orderly PROVE Known(n.vm)' /\ JobFits(n)'
  <2>1. Current(job[j]) /\ row.st = "generalizing"
    BY <1>2, <1>9 DEF Orderly, JobFits, StateOf
  <2>2. row.vm = v /\ v # NoVM
    BY <1>3, <1>9, <2>1 DEF Orderly, JobFits, Transient
  <2>3. Known(n.vm)' /\ vm'[n.vm] = o /\ There(n.vm)'
    BY <1>1, <1>3, <1>4, <1>6, <1>7 DEF Known, There
  <2>4. Current(n)' /\ row'.st = "generalizing" /\ row'.vm = n.vm /\ row'.src = row.src
    BY <1>1, <1>3, <2>1, <2>2 DEF Current, Wizard
  <2>5. n.type = "generalize" /\ n.pc = p /\ n.st = "running" /\ n.vm # NoVM
    BY <1>1, <1>3, <2>2
  <2> QED BY <1>9, <2>3, <2>4, <2>5 DEF JobFits, StateOf
<1> QED BY <1>0, <1>1, <1>2, <1>6, <1>7, <1>8, <1>9, Runs

\* The steps of a generalization up to its snapshot, and their failures.
LEMMA GeneralizeRunKeeps ==
  ASSUME IInv, NEW j \in Jobs,
         \/ GeneralizeConfirmed(j) \/ GeneralizeUnconfirmed(j)
         \/ SkipGeneralizeAndFinalize(j) \/ GeneralizeSnapshot(j)
  PROVE  IInv'
<1>0. TypeOK /\ vm \in [VMs -> Machines]
  BY DEF IInv, TypeOK
<1>1. job[j].st = "running" /\ job[j].type = "generalize" /\ job[j].pc \in {"guest", "off", "snapshot"}
  BY DEF GeneralizeConfirmed, GeneralizeUnconfirmed, SkipGeneralizeAndFinalize, GeneralizeSnapshot, Running
<1>2. ~job[j].clone /\ Wizard(job[j]) /\ Busy(job[j])
  BY <1>1 DEF IInv, ClonesHeld, CloneHeld, Wizard, Busy
<1>3. PICK v : v = job[j].vm
  OBVIOUS
<1>4. CASE FailMarked(j)
  <2>1. Grown(vm)
    BY DEF Grown
  <2>2. PICK m : m = vm
    OBVIOUS
  <2> QED BY <1>0, <1>2, <1>4, <2>1, <2>2, FailsMarked DEF FailMarked
<1>5. CASE GeneralizeConfirmed(j)
  <2>1. v \in VMs /\ vm[v].st = "there" /\ There(job[j].vm)
    BY <1>3, <1>5 DEF GeneralizeConfirmed, There
  <2>2. PICK o : o = [vm[v] EXCEPT !.gen = TRUE, !.on = FALSE]
    OBVIOUS
  <2>3. o \in Machines /\ o.st = "there" /\ o.gen /\ o.snap = vm[v].snap /\ o.proven = vm[v].proven
    BY <1>0, <2>1, <2>2, OneOfEach DEF Machines
  <2>4. vm' = [vm EXCEPT ![v] = o] /\ UNCHANGED <<req, sweep>>
    BY <1>3, <1>5, <2>2 DEF GeneralizeConfirmed
  <2>5. CASE At(j, "snapshot") /\ UNCHANGED <<row, races>>
    BY <1>1, <1>3, <2>1, <2>3, <2>4, <2>5, GuestRuns
  <2>6. CASE Failed(j) /\ MarkTemplateError(j)
    <3>1. PICK m : m = [vm EXCEPT ![v] = o]
      OBVIOUS
    <3>2. m \in [VMs -> Machines] /\ m[v] = o /\ \A w \in VMs \ {v} : m[w] = vm[w]
      BY <1>0, <2>1, <2>3, <3>1, OneVM
    <3>3. Grown(m)
      BY <2>1, <2>3, <3>2 DEF Grown
    <3> QED BY <1>2, <2>4, <2>6, <3>1, <3>2, <3>3, FailsMarked
  <2> QED BY <1>5, <2>5, <2>6 DEF GeneralizeConfirmed
<1>6. CASE /\ Running(j, "generalize", "off") /\ There(job[j].vm)
           /\ vm' = [vm EXCEPT ![job[j].vm].on = FALSE]
           /\ At(j, "snapshot")
           /\ UNCHANGED <<row, req, sweep, races>>
  <2>1. v \in VMs /\ vm[v].st = "there"
    BY <1>3, <1>6 DEF There
  <2>2. PICK o : o = [vm[v] EXCEPT !.on = FALSE]
    OBVIOUS
  <2>3. o \in Machines /\ o.st = "there" /\ o.gen = vm[v].gen /\ o.snap = vm[v].snap /\ o.proven = vm[v].proven
    BY <1>0, <2>1, <2>2, OneOfEach DEF Machines
  <2>4. vm' = [vm EXCEPT ![v] = o]
    BY <1>3, <1>6, <2>2
  <2>5. Orderly => row.src = "clone_skip"
    BY <1>2, <1>6 DEF Orderly, JobFits, Running
  <2> QED BY <1>1, <1>3, <1>6, <2>1, <2>3, <2>4, <2>5, GuestRuns
<1>7. CASE /\ Running(j, "generalize", "snapshot") /\ There(job[j].vm)
           /\ vm' = [vm EXCEPT ![job[j].vm].snap = TRUE]
           /\ At(j, "ready")
           /\ UNCHANGED <<row, req, sweep, races>>
  <2>1. v \in VMs /\ vm[v].st = "there"
    BY <1>3, <1>7 DEF There
  <2>2. PICK o : o = [vm[v] EXCEPT !.snap = TRUE]
    OBVIOUS
  <2>3. o \in Machines /\ o.st = "there" /\ o.gen = vm[v].gen /\ o.snap /\ o.proven = vm[v].proven /\ o.on = vm[v].on
    BY <1>0, <2>1, <2>2, OneOfEach DEF Machines
  <2>4. vm' = [vm EXCEPT ![v] = o]
    BY <1>3, <1>7, <2>2
  <2>5. Orderly => row.src = "clone_skip" \/ o.gen
    BY <1>2, <1>3, <1>7, <2>3 DEF Orderly, JobFits, Running
  <2> QED BY <1>1, <1>3, <1>7, <2>1, <2>3, <2>4, <2>5, GuestRuns
<1> QED BY <1>4, <1>5, <1>6, <1>7 DEF GeneralizeUnconfirmed, SkipGeneralizeAndFinalize, GeneralizeSnapshot

\* generalizing -> ready, with the base image that was just taken.
LEMMA ReadyKeeps ==
  ASSUME IInv, NEW j \in Jobs, SnapshotAndMarkReady(j)
  PROVE  IInv'
<1>0. TypeOK /\ row \in Rows /\ vm \in [VMs -> Machines] /\ races \subseteq Races
  BY DEF IInv, TypeOK
<1>1. job[j].st = "running" /\ job[j].type = "generalize" /\ job[j].pc = "ready"
  BY DEF SnapshotAndMarkReady, Running
<1>2. ~job[j].clone /\ Wizard(job[j]) /\ Busy(job[j])
  BY <1>1 DEF IInv, ClonesHeld, CloneHeld, Wizard, Busy
<1>3. Grown(vm)
  BY DEF Grown
<1>4. PICK m : m = vm
  OBVIOUS
<1>5. CASE FailMarked(j)
  BY <1>0, <1>2, <1>3, <1>4, <1>5, FailsMarked DEF FailMarked
<1>6. CASE /\ row.st = "generalizing" /\ UpdateTemplateLifecycleState("generalizing", "ready")
           /\ races' = races \cup Foreign(j) /\ Returned(j) /\ UNCHANGED <<vm, req, sweep>>
  <2>1. /\ UpdateTemplateLifecycleState("generalizing", "ready")
        /\ races' = races \cup Foreign(j) /\ At(j, "done") /\ UNCHANGED <<vm, req, sweep>>
    BY <1>6 DEF Returned
  <2>2. PICK n \in JobRows :
           /\ job' = [job EXCEPT ![j] = n]
           /\ n.type = job[j].type /\ n.cycle = job[j].cycle
           /\ n.vm = job[j].vm /\ n.clone = job[j].clone /\ n.st = job[j].st /\ n.pc = "done"
    BY <1>0, <2>1, AtShapes
  <2>3. PICK r \in Rows :
           /\ row' = r /\ r.cycle = row.cycle /\ r.src = row.src /\ r.vm = row.vm /\ r.st = "ready"
           /\ races' \subseteq Races /\ races \subseteq races'
           /\ races' = {} => job[j].cycle = row.cycle
    BY <1>0, <1>6, <2>1, MoveShapes DEF States
  <2>4. CloneHeld(n) /\ ~Busy(n)
    BY <1>2, <2>2 DEF CloneHeld, Busy
  <2>5. ASSUME races' = {}, Orderly PROVE Current(job[j]) /\ row.st \in Transient /\ RowOrderly'
    <3>1. Current(job[j])
      BY <1>2, <2>5 DEF Orderly, JobFits
    <3>2. row.vm = job[j].vm
      BY <1>1, <1>6, <2>5, <3>1 DEF Orderly, JobFits, Transient
    <3>3. (row.src = "clone_skip" \/ vm[row.vm].gen) /\ There(row.vm) /\ vm[row.vm].snap
      BY <1>1, <1>2, <2>5, <3>2 DEF Orderly, JobFits
    <3> QED BY <1>6, <2>1, <2>3, <3>1, <3>3 DEF RowOrderly, Transient, There
  <2>6. r.st \notin Transient
    BY <2>3 DEF Transient
  <2> QED BY <1>0, <1>3, <1>4, <2>1, <2>2, <2>3, <2>4, <2>5, <2>6, Leaves
<1> QED BY <1>5, <1>6 DEF SnapshotAndMarkReady

\* What becomes of a job whose clone is left to it, or to an operator.
LEMMA LeftShapes ==
  ASSUME IInv, NEW j \in Jobs, job[j].type \in {"verify", "revalidate"},
         CleanupLater(j) \/ ManualCleanupRequired(j)
  PROVE  \E n \in JobRows :
           /\ job' = [job EXCEPT ![j] = n]
           /\ n.type = job[j].type /\ n.cycle = job[j].cycle /\ n.vm = job[j].vm
           /\ CloneHeld(n) /\ ((n.st = "pending" /\ n.pc = "start") \/ n.st = "ended")
<1>0. TypeOK
  BY DEF IInv
<1>1. CASE CleanupLater(j)
  <2>1. PICK p : p = Requeued(j)
    OBVIOUS
  <2>2. /\ p \in JobRows /\ p.type = job[j].type /\ p.cycle = job[j].cycle /\ p.vm = job[j].vm
        /\ p.st = "pending" /\ p.pc = "start"
    BY <1>0, <2>1, JobShapes
  <2>3. PICK n : n = [p EXCEPT !.cleanup = TRUE]
    OBVIOUS
  <2>4. /\ n \in JobRows /\ n.type = p.type /\ n.cycle = p.cycle /\ n.vm = p.vm
        /\ n.st = p.st /\ n.pc = p.pc
    BY <2>2, <2>3 DEF JobRows
  <2>5. job' = [job EXCEPT ![j] = n]
    BY <1>1, <2>1, <2>3 DEF CleanupLater, Put
  <2>6. CloneHeld(n)
    BY <2>2, <2>4 DEF CloneHeld
  <2> QED BY <2>2, <2>4, <2>5, <2>6
<1>2. CASE ManualCleanupRequired(j)
  <2>1. PICK n : n = [job[j] EXCEPT !.st = "ended", !.manual = TRUE]
    OBVIOUS
  <2>2. /\ n \in JobRows /\ n.type = job[j].type /\ n.cycle = job[j].cycle /\ n.vm = job[j].vm
        /\ n.st = "ended" /\ n.manual
    BY <1>0, <2>1, OneOfEach DEF JobRows
  <2>3. job' = [job EXCEPT ![j] = n]
    BY <1>2, <2>1 DEF ManualCleanupRequired, Put
  <2>4. CloneHeld(n)
    BY <2>2 DEF CloneHeld
  <2> QED BY <2>2, <2>3, <2>4
<1> QED BY <1>1, <1>2

\* An error before the smoke check: the job, with its clone if it has one.
LEMMA PreambleShapes ==
  ASSUME IInv, NEW j \in Jobs, job[j].st = "pending", job[j].type \in {"verify", "revalidate"}, PreambleFailed(j)
  PROVE  \E n \in JobRows :
           /\ job' = [job EXCEPT ![j] = n]
           /\ n.type = job[j].type /\ n.cycle = job[j].cycle /\ n.vm = job[j].vm
           /\ CloneHeld(n) /\ ((n.st = "pending" /\ n.pc = "start") \/ n.st = "ended")
<1>0. TypeOK
  BY DEF IInv
<1>1. CASE ~job[j].clone /\ Failed(j)
  <2>1. PICK n \in JobRows :
           /\ job' = [job EXCEPT ![j] = n]
           /\ n.type = job[j].type /\ n.cycle = job[j].cycle
           /\ n.vm = job[j].vm /\ n.clone = job[j].clone
           /\ (n.st = "pending" /\ n.pc = "start") \/ n.st = "ended"
    BY <1>0, <1>1, FailedShapes
  <2>2. CloneHeld(n)
    BY <1>1, <2>1 DEF CloneHeld
  <2> QED BY <2>1, <2>2
<1>2. CASE Retried(j)
  <2>1. PICK n : n = [Requeued(j) EXCEPT !.tries = @ + 1]
    OBVIOUS
  <2>2. /\ n \in JobRows /\ n.type = job[j].type /\ n.cycle = job[j].cycle
        /\ n.vm = job[j].vm /\ n.clone = job[j].clone /\ n.st = "pending" /\ n.pc = "start"
    BY <1>0, <1>2, <2>1, JobShapes DEF Retried
  <2>3. job' = [job EXCEPT ![j] = n]
    BY <1>2, <2>1 DEF Put, Retried
  <2>4. CloneHeld(n)
    BY <2>2 DEF CloneHeld
  <2> QED BY <2>2, <2>3, <2>4
<1>3. CASE CleanupLater(j)
  BY <1>3, LeftShapes
<1> QED BY <1>1, <1>2, <1>3 DEF PreambleFailed, CleanupLater

\* The claim of a verification or a revalidation.
LEMMA VerifyKeeps ==
  ASSUME IInv, NEW j \in Jobs, VerifyTemplate(j)
  PROVE  IInv'
<1>0. TypeOK /\ row \in Rows /\ vm \in [VMs -> Machines]
  BY DEF IInv, TypeOK
<1>1. job[j].st = "pending" /\ job[j].type \in {"verify", "revalidate"} /\ ~job[j].cleanup
  BY DEF VerifyTemplate, Smoke
<1>2. UNCHANGED <<row, vm, req, sweep>>
  BY DEF VerifyTemplate
<1>3. ASSUME PreambleFailed(j), Recorded(j) PROVE IInv'
  <2>1. PICK n \in JobRows :
           /\ job' = [job EXCEPT ![j] = n]
           /\ n.type = job[j].type /\ n.cycle = job[j].cycle /\ n.vm = job[j].vm
           /\ CloneHeld(n) /\ ((n.st = "pending" /\ n.pc = "start") \/ n.st = "ended")
    BY <1>1, <1>3, PreambleShapes
  <2>2. Grown(vm)
    BY DEF Grown
  <2>3. PICK r : r = row
    OBVIOUS
  <2>4. PICK m : m = vm
    OBVIOUS
  <2> QED BY <1>0, <1>2, <1>3, <2>1, <2>2, <2>3, <2>4, Stops
<1>5. CASE ~VerifyExpects(j) /\ PreambleFailed(j) /\ UNCHANGED races
  <2>1. row.st \in Transient => job[j].type # JobFor(row.st)
    BY <1>1, <1>5 DEF VerifyExpects, JobFor, Transient
  <2>2. Recorded(j)
    BY <1>0, <1>2, <1>5, <2>1, PlainRecorded
  <2> QED BY <1>3, <1>5, <2>2
<1>6. CASE PreambleFailed(j) /\ races' = races \cup Unmarked(j)
  <2>1. Recorded(j)
    BY <1>0, <1>2, <1>6, UnmarkedRecorded
  <2> QED BY <1>3, <1>6, <2>1
<1>7. ASSUME VerifyExpects(j), Begin(j, "smoke"), Starts(j) PROVE IInv'
  <2>a. /\ job[j].type = "verify" => row.st = "verifying"
        /\ Begin(j, "smoke") /\ Starts(j) /\ UNCHANGED <<row, vm, req, sweep>>
    BY <1>2, <1>7 DEF VerifyExpects
  <2>1. PICK n \in JobRows :
              /\ job' = [job EXCEPT ![j] = n]
              /\ n.type = job[j].type /\ n.cycle = job[j].cycle
              /\ n.vm = job[j].vm /\ n.clone = job[j].clone /\ n.st = "running" /\ n.pc = "smoke"
    BY <1>0, <2>a, BeginShapes
  <2>2. /\ races \subseteq races' /\ races' \subseteq Races
        /\ races' = {} /\ Wizard(job[j]) => job[j].cycle = row.cycle
    BY <1>0, <2>a, BeginShapes
  <2>3. CloneHeld(n)
    BY <1>1, <2>1 DEF CloneHeld
  <2>4. Grown(vm)
    BY DEF Grown
  <2>5. ASSUME races' = {}, Orderly PROVE Known(n.vm)' /\ JobFits(n)'
    <3>1. Known(n.vm)'
      BY <2>a, <2>1, <2>5 DEF Orderly, AllKnown, Known
    <3>2. JobFits(job[j])
      BY <2>5 DEF Orderly
    <3> QED BY <1>1, <2>a, <2>1, <2>2, <2>5, <3>1, <3>2 DEF JobFits, StateOf, Current, Wizard, Busy
  <2>6. PICK m : m = vm
    OBVIOUS
  <2>7. m \in [VMs -> Machines] /\ vm' = m
    BY <1>0, <2>a, <2>6 DEF TypeOK
  <2> QED BY <2>a, <2>1, <2>2, <2>3, <2>4, <2>5, <2>6, <2>7, Runs
<1> QED BY <1>5, <1>6, <1>7 DEF VerifyTemplate

\* verifying -> ready, or nothing.
LEMMA ToReadyShapes ==
  ASSUME TypeOK, NEW j \in Jobs, VerifyFailedToReady(j), UNCHANGED <<vm, req>>
  PROVE  \E r \in Rows :
           /\ row' = r /\ r.cycle = row.cycle /\ r.src = row.src /\ r.vm = row.vm
           /\ r.st # row.st => /\ job[j].type = "verify" /\ row.st = "verifying" /\ r.st = "ready"
                               /\ Orderly => RowOrderly'
<1>0. row \in Rows
  BY DEF TypeOK
<1>1. CASE UNCHANGED row
  BY <1>0, <1>1
<1>2. CASE job[j].type = "verify" /\ row.st = "verifying" /\ SetRow([row EXCEPT !.st = "ready"])
  <2>1. PICK r : r = [[row EXCEPT !.st = "ready"] EXCEPT !.old = FALSE]
    OBVIOUS
  <2>2. row' = r
    BY <1>2, <2>1 DEF SetRow
  <2>3. /\ r \in Rows /\ r.st = "ready" /\ r.vm = row.vm
        /\ r.src = row.src /\ r.cycle = row.cycle
    BY <1>0, <2>1, RowShapes DEF States
  <2>4. Orderly => RowOrderly'
    BY <1>2, <2>2, <2>3 DEF Orderly, RowOrderly, There, Forgetting
  <2> QED BY <1>2, <2>2, <2>3, <2>4
<1> QED BY <1>1, <1>2 DEF VerifyFailedToReady, UpdateTemplateLifecycleState

\* A check that does not pass takes its template back to ready, or leaves it unmarked.
LEMMA FallsBack ==
  ASSUME IInv, NEW j \in Jobs, NEW n \in JobRows, job' = [job EXCEPT ![j] = n],
         VerifyFailedToReady(j), job[j].type \in {"verify", "revalidate"}, UNCHANGED <<vm, req, sweep>>,
         n.type = job[j].type, n.cycle = job[j].cycle, n.vm = job[j].vm, CloneHeld(n),
         (n.st = "pending" /\ n.pc = "start") \/ n.st = "ended"
  PROVE  IInv'
<1>0. TypeOK /\ vm \in [VMs -> Machines]
  BY DEF IInv, TypeOK
<1>1. PICK r \in Rows :
           /\ row' = r /\ r.cycle = row.cycle /\ r.src = row.src /\ r.vm = row.vm
           /\ r.st # row.st => /\ job[j].type = "verify" /\ row.st = "verifying" /\ r.st = "ready"
                               /\ Orderly => RowOrderly'
  BY <1>0, ToReadyShapes
<1>2. r.st # row.st => /\ Wizard(job[j]) /\ row.st \in Transient /\ r.st \notin Transient
                       /\ Orderly => RowOrderly'
  BY <1>1 DEF Wizard, Transient
<1>3. Grown(vm)
  BY DEF Grown
<1>4. PICK m : m = vm
  OBVIOUS
<1>5. Recorded(j)
  BY <1>0, ToReadyRecorded
<1> QED BY <1>0, <1>1, <1>2, <1>3, <1>4, <1>5, Stops

\* A check that goes on.
LEMMA SmokeRuns ==
  ASSUME IInv, NEW j \in Jobs, job[j].st = "running", job[j].type \in {"verify", "revalidate"},
         job[j].pc \in {"smoke", "destroy"}, UNCHANGED <<row, req, sweep, races>>,
         NEW n \in JobRows, job' = [job EXCEPT ![j] = n], NEW m \in [VMs -> Machines], vm' = m,
         n.type = job[j].type, n.cycle = job[j].cycle, n.vm = job[j].vm, n.st = "running",
         n.pc \in {"smoke", "destroy", "promote"}, n.clone => n.pc # "promote",
         Orderly => Grown(m) /\ (m # vm => Busy(job[j])),
         Orderly /\ n.type = "verify" /\ (n.pc = "promote" \/ (n.pc = "destroy" /\ n.pass)) => m[n.vm].proven
  PROVE  IInv'
<1>0. TypeOK /\ races \subseteq Races
  BY DEF IInv, TypeOK
<1>1. CloneHeld(n)
  BY DEF CloneHeld
<1>2. ASSUME Orderly PROVE Known(n.vm)' /\ JobFits(n)'
  <2>1. JobFits(job[j]) /\ Known(job[j].vm) /\ n.vm \in VMs \cup {NoVM}
    BY <1>2 DEF Orderly, AllKnown, JobRows
  <2>2. Known(n.vm)'
    BY <1>2, <2>1 DEF Known, Grown
  <2>3. (Busy(job[j]) <=> job[j].type = "verify") /\ (Busy(n) <=> n.type = "verify")
    BY DEF Busy, Wizard
  <2>4. JobFits(n)'
    BY <1>2, <2>1, <2>3 DEF JobFits, Current, Wizard, StateOf, Busy
  <2> QED BY <2>2, <2>4
<1> QED BY <1>0, <1>1, <1>2, Runs

\* ExecuteDurableVMClone: the check has its clone.
LEMMA SmokeCloneKeeps ==
  ASSUME IInv, NEW j \in Jobs, ExecuteDurableVMClone(j)
  PROVE  IInv'
<1>0. TypeOK /\ vm \in [VMs -> Machines]
  BY DEF IInv, TypeOK
<1>1. /\ job[j].st = "running" /\ job[j].type \in {"verify", "revalidate"} /\ job[j].pc = "smoke"
      /\ UNCHANGED <<row, vm, req, sweep, races>>
  BY DEF ExecuteDurableVMClone, Smoke
<1>2. PICK n : n = [job[j] EXCEPT !.clone = TRUE]
  OBVIOUS
<1>3. /\ n \in JobRows /\ n.type = job[j].type /\ n.cycle = job[j].cycle
      /\ n.vm = job[j].vm /\ n.clone = TRUE /\ n.st = job[j].st /\ n.pc = job[j].pc
  BY <1>0, <1>2, OneOfEach DEF JobRows
<1>4. job' = [job EXCEPT ![j] = n]
  BY <1>2 DEF ExecuteDurableVMClone, Put
<1>5. Grown(vm)
  BY DEF Grown
<1>6. PICK m : m = vm
  OBVIOUS
<1> QED BY <1>0, <1>1, <1>3, <1>4, <1>5, <1>6, SmokeRuns

\* RunSmokeCheck: a verdict, a retry, or an end, with the clone left to somebody if there is one.
LEMMA RunSmokeKeeps ==
  ASSUME IInv, NEW j \in Jobs, RunSmokeCheck(j)
  PROVE  IInv'
<1>0. TypeOK /\ vm \in [VMs -> Machines]
  BY DEF IInv, TypeOK
<1>1. /\ job[j].st = "running" /\ job[j].type \in {"verify", "revalidate"} /\ job[j].pc = "smoke"
      /\ UNCHANGED <<req, sweep>>
  BY DEF RunSmokeCheck, Smoke
<1>3. CASE Retried(j) /\ UNCHANGED <<row, vm, races>>
  <2>1. PICK n : n = [Requeued(j) EXCEPT !.tries = @ + 1]
    OBVIOUS
  <2>2. /\ n \in JobRows /\ n.type = job[j].type /\ n.cycle = job[j].cycle
        /\ n.vm = job[j].vm /\ n.clone = job[j].clone /\ n.st = "pending" /\ n.pc = "start"
    BY <1>0, <1>3, <2>1, JobShapes DEF Retried
  <2>3. job' = [job EXCEPT ![j] = n]
    BY <1>3, <2>1 DEF Put, Retried
  <2> QED BY <1>1, <1>3, <2>2, <2>3, Waits
<1>4. CASE ~job[j].clone /\ Ended(j) /\ VerifyFailedToReady(j) /\ UNCHANGED vm
  <2>1. PICK n \in JobRows :
           /\ job' = [job EXCEPT ![j] = n]
           /\ n.type = job[j].type /\ n.cycle = job[j].cycle
           /\ n.vm = job[j].vm /\ n.clone = job[j].clone /\ n.st = "ended"
    BY <1>0, <1>4, EndedShapes
  <2>2. CloneHeld(n)
    BY <1>4, <2>1 DEF CloneHeld
  <2> QED BY <1>1, <1>4, <2>1, <2>2, FallsBack
<1>5. CASE /\ CleanupLater(j) \/ ManualCleanupRequired(j)
           /\ VerifyFailedToReady(j) /\ UNCHANGED vm
  <2>1. PICK n \in JobRows :
           /\ job' = [job EXCEPT ![j] = n]
           /\ n.type = job[j].type /\ n.cycle = job[j].cycle /\ n.vm = job[j].vm
           /\ CloneHeld(n) /\ ((n.st = "pending" /\ n.pc = "start") \/ n.st = "ended")
    BY <1>1, <1>5, LeftShapes
  <2> QED BY <1>1, <1>5, <2>1, FallsBack
<1>6. ASSUME NEW ok \in BOOLEAN, Put(j, [job[j] EXCEPT !.pass = ok, !.pc = "destroy"]),
             vm' = IF job[j].type = "verify" THEN [vm EXCEPT ![job[j].vm].proven = ok] ELSE vm,
             UNCHANGED <<row, races>>
      PROVE  IInv'
  <2>1. PICK n : n = [job[j] EXCEPT !.pass = ok, !.pc = "destroy"]
    OBVIOUS
  <2>2. job' = [job EXCEPT ![j] = n]
    BY <1>6, <2>1 DEF Put
  <2>3. /\ n \in JobRows /\ n.type = job[j].type /\ n.cycle = job[j].cycle /\ n.vm = job[j].vm
        /\ n.clone = job[j].clone /\ n.st = job[j].st /\ n.pc = "destroy" /\ n.pass = ok
    BY <1>0, <2>1, OneOfEach DEF JobRows
  <2>4. PICK v : v = job[j].vm
    OBVIOUS
  <2>5. PICK m : m = vm'
    OBVIOUS
  <2>6. /\ m \in [VMs -> Machines]
        /\ job[j].type # "verify" => m = vm
        /\ job[j].type = "verify" /\ v \in VMs => m[v].proven = ok
        /\ \A w \in VMs : /\ m[w].st = vm[w].st /\ m[w].on = vm[w].on /\ m[w].gen = vm[w].gen
                          /\ m[w].snap = vm[w].snap
    <3>1. CASE job[j].type = "verify" /\ v \in VMs
      <4>1. PICK o : o = [vm[v] EXCEPT !.proven = ok]
        OBVIOUS
      <4>2. /\ o \in Machines /\ o.st = vm[v].st /\ o.gen = vm[v].gen /\ o.on = vm[v].on
            /\ o.snap = vm[v].snap /\ o.proven = ok
        BY <1>0, <3>1, <4>1, OneOfEach DEF Machines
      <4>3. m = [vm EXCEPT ![v] = o]
        BY <1>6, <2>4, <2>5, <3>1, <4>1
      <4>4. m[v] = o /\ \A w \in VMs \ {v} : m[w] = vm[w]
        BY <1>0, <3>1, <4>3
      <4>5. m \in [VMs -> Machines]
        BY <1>0, <4>2, <4>3
      <4> QED BY <3>1, <4>2, <4>4, <4>5
    <3>2. CASE ~(job[j].type = "verify" /\ v \in VMs)
      <4>1. m = vm
        BY <1>0, <1>6, <2>4, <2>5, <3>2
      <4> QED BY <1>0, <3>2, <4>1
    <3> QED BY <3>1, <3>2
  <2>7. ASSUME Orderly
        PROVE  /\ Grown(m) /\ (m # vm => Busy(job[j]))
               /\ n.type = "verify" /\ n.pass => m[n.vm].proven
    <3>1. CASE job[j].type = "verify"
      <4>1. Busy(job[j])
        BY <1>1, <3>1 DEF Busy, Wizard
      <4>2. JobFits(job[j]) /\ v \in VMs \cup {NoVM}
        BY <1>0, <2>4, <2>7, OneOfEach DEF Orderly, JobRows
      <4>3. row.st = "verifying" /\ v \in VMs
        BY <1>1, <2>4, <3>1, <4>1, <4>2 DEF JobFits, StateOf, Transient
      <4>4. Grown(m)
        BY <2>6, <4>3 DEF Grown
      <4> QED BY <2>3, <2>4, <2>6, <3>1, <4>1, <4>3, <4>4
    <3>2. CASE job[j].type # "verify"
      <4>1. m = vm
        BY <2>6, <3>2
      <4>2. Grown(m)
        BY <4>1 DEF Grown
      <4> QED BY <2>3, <3>2, <4>1, <4>2
    <3> QED BY <3>1, <3>2
  <2>8. vm' = m
    BY <2>5
  <2>9. m \in [VMs -> Machines]
    BY <2>6
  <2> HIDE <2>5, <2>6
  <2> QED BY <1>1, <1>6, <2>2, <2>3, <2>7, <2>8, <2>9, SmokeRuns
<1> QED BY <1>3, <1>4, <1>5, <1>6 DEF RunSmokeCheck

\* The clone is gone and the job with it.
LEMMA CleanedShapes ==
  ASSUME IInv, NEW j \in Jobs
  PROVE  /\ Cleaned(j) \in JobRows /\ Cleaned(j).type = job[j].type /\ Cleaned(j).cycle = job[j].cycle
         /\ Cleaned(j).vm = job[j].vm /\ Cleaned(j).clone = FALSE /\ Cleaned(j).pass = job[j].pass
         /\ Cleaned(j).st = job[j].st /\ Cleaned(j).pc = job[j].pc /\ Cleaned(j).tries = job[j].tries
<1>1. PICK o : o = job[j]
  OBVIOUS
<1>2. o \in JobRows
  BY <1>1, OneOfEach DEF IInv
<1>3. PICK n : n = [o EXCEPT !.clone = FALSE]
  OBVIOUS
<1>4. /\ n \in JobRows /\ n.type = o.type /\ n.cycle = o.cycle /\ n.vm = o.vm /\ n.clone = FALSE
      /\ n.pass = o.pass /\ n.st = o.st /\ n.pc = o.pc /\ n.tries = o.tries
  BY <1>2, <1>3 DEF JobRows
<1>5. n = Cleaned(j)
  BY <1>1, <1>3 DEF Cleaned
<1> QED BY <1>1, <1>4, <1>5

\* The clone is destroyed before the verdict counts; what cannot be destroyed keeps its
\* job, or is left to an operator.
LEMMA CleanupKeeps ==
  ASSUME IInv, NEW j \in Jobs, FinishStandaloneVMCloneCleanup(j) \/ SmokeCleanupOnly(j)
  PROVE  IInv'
<1>0. TypeOK /\ vm \in [VMs -> Machines] /\ row \in Rows /\ races \subseteq Races
  BY DEF IInv, TypeOK
<1>1. job[j].type \in {"verify", "revalidate"} /\ UNCHANGED <<vm, req, sweep>>
  BY DEF FinishStandaloneVMCloneCleanup, SmokeCleanupOnly, Smoke
<1>2. PICK c : c = Cleaned(j)
  OBVIOUS
<1>3. /\ c \in JobRows /\ c.type = job[j].type /\ c.cycle = job[j].cycle /\ c.vm = job[j].vm
      /\ c.clone = FALSE /\ c.pass = job[j].pass /\ c.st = job[j].st /\ c.pc = job[j].pc /\ c.tries = job[j].tries
  BY <1>2, CleanedShapes
<1>4. Grown(vm)
  BY DEF Grown
<1>5. CASE VerifyFailedToReady(j) /\ Put(j, [c EXCEPT !.st = "ended"])
  <2>1. PICK n : n = [c EXCEPT !.st = "ended"]
    OBVIOUS
  <2>2. /\ n \in JobRows /\ n.type = job[j].type /\ n.cycle = job[j].cycle
        /\ n.vm = job[j].vm /\ n.clone = FALSE /\ n.st = "ended"
    BY <1>3, <2>1 DEF JobRows
  <2>3. CloneHeld(n)
    BY <2>2 DEF CloneHeld
  <2>4. job' = [job EXCEPT ![j] = n]
    BY <1>5, <2>1 DEF Put
  <2> QED BY <1>1, <1>5, <2>2, <2>3, <2>4, FallsBack
<1>6. CASE VerifyFailedToReady(j) /\ (CleanupLater(j) \/ ManualCleanupRequired(j))
  <2>1. PICK n \in JobRows :
           /\ job' = [job EXCEPT ![j] = n]
           /\ n.type = job[j].type /\ n.cycle = job[j].cycle /\ n.vm = job[j].vm
           /\ CloneHeld(n) /\ ((n.st = "pending" /\ n.pc = "start") \/ n.st = "ended")
    BY <1>1, <1>6, LeftShapes
  <2> QED BY <1>1, <1>6, <2>1, FallsBack
<1>7. CASE /\ job[j].st = "running" /\ job[j].pc = "destroy" /\ job[j].pass
           /\ Put(j, [c EXCEPT !.pc = "promote"]) /\ UNCHANGED <<row, races>>
  <2>1. PICK n : n = [c EXCEPT !.pc = "promote"]
    OBVIOUS
  <2>2. /\ n \in JobRows /\ n.type = job[j].type /\ n.cycle = job[j].cycle
        /\ n.vm = job[j].vm /\ n.clone = FALSE /\ n.st = job[j].st /\ n.pc = "promote"
    BY <1>3, <2>1 DEF JobRows
  <2>3. job' = [job EXCEPT ![j] = n]
    BY <1>7, <2>1 DEF Put
  <2>4. ASSUME Orderly, n.type = "verify" PROVE vm[n.vm].proven
    <3>1. JobFits(job[j]) /\ Busy(job[j])
      BY <1>7, <2>2, <2>4 DEF Orderly, Busy, Wizard
    <3> QED BY <1>7, <2>2, <2>4, <3>1 DEF JobFits
  <2>5. PICK m : m = vm
    OBVIOUS
  <2> QED BY <1>0, <1>1, <1>4, <1>7, <2>2, <2>3, <2>4, <2>5, SmokeRuns
<1>8. CASE /\ job[j].st = "running" /\ job[j].tries < MaxRetries
           /\ Put(j, [c EXCEPT !.st = "pending", !.pc = "start", !.tries = @ + 1])
           /\ UNCHANGED <<row, races>>
  <2>1. PICK n : n = [c EXCEPT !.st = "pending", !.pc = "start", !.tries = @ + 1]
    OBVIOUS
  <2>2. c.tries + 1 \in 0 .. MaxRetries
    BY <1>3, <1>8, TemplateAssumption DEF JobRows
  <2>3. /\ n \in JobRows /\ n.type = job[j].type /\ n.cycle = job[j].cycle
        /\ n.vm = job[j].vm /\ n.clone = FALSE /\ n.st = "pending" /\ n.pc = "start"
    BY <1>3, <2>1, <2>2 DEF JobRows
  <2>4. job' = [job EXCEPT ![j] = n]
    BY <1>8, <2>1 DEF Put
  <2>5. CloneHeld(n)
    BY <2>3 DEF CloneHeld
  <2>6. job'[j] = n /\ n.st # "ended"
    BY <1>0, <2>3, <2>4 DEF TypeOK
  <2>7. Recorded(j)
    BY <1>0, <1>8, <2>6 DEF Recorded, Foreign, Abandoned
  <2>8. PICK r : r = row
    OBVIOUS
  <2>9. PICK m : m = vm
    OBVIOUS
  <2> QED BY <1>0, <1>1, <1>4, <1>8, <2>3, <2>4, <2>5, <2>7, <2>8, <2>9, Stops
<1> QED BY <1>2, <1>5, <1>6, <1>7, <1>8 DEF FinishStandaloneVMCloneCleanup, SmokeCleanupOnly

\* verifying -> active, of a VM whose check was passed.
LEMMA PromoteKeeps ==
  ASSUME IInv, NEW j \in Jobs, VerifyPromote(j)
  PROVE  IInv'
<1>0. TypeOK /\ row \in Rows /\ vm \in [VMs -> Machines] /\ races \subseteq Races
  BY DEF IInv, TypeOK
<1>1. job[j].st = "running" /\ job[j].type = "verify" /\ job[j].pc = "promote" /\ UNCHANGED <<vm, req, sweep>>
  BY DEF VerifyPromote, Running, FailMarked
<1>2. ~job[j].clone /\ Wizard(job[j]) /\ Busy(job[j])
  BY <1>1 DEF IInv, ClonesHeld, CloneHeld, Wizard, Busy
<1>3. Grown(vm)
  BY DEF Grown
<1>4. PICK m : m = vm
  OBVIOUS
<1>5. CASE FailMarked(j)
  BY <1>0, <1>2, <1>3, <1>4, <1>5, FailsMarked DEF FailMarked
<1>6. CASE Failed(j) /\ VerifyFailedToReady(j)
  <2>1. PICK n \in JobRows :
           /\ job' = [job EXCEPT ![j] = n]
           /\ n.type = job[j].type /\ n.cycle = job[j].cycle
           /\ n.vm = job[j].vm /\ n.clone = job[j].clone
           /\ (n.st = "pending" /\ n.pc = "start") \/ n.st = "ended"
    BY <1>0, <1>6, FailedShapes
  <2>2. CloneHeld(n)
    BY <1>2, <2>1 DEF CloneHeld
  <2> QED BY <1>1, <1>6, <2>1, <2>2, FallsBack
<1>7. CASE /\ row.st = "verifying" /\ UpdateTemplateLifecycleState("verifying", "active")
           /\ races' = races \cup Foreign(j) /\ At(j, "activate")
  <2>1. PICK n \in JobRows :
           /\ job' = [job EXCEPT ![j] = n]
           /\ n.type = job[j].type /\ n.cycle = job[j].cycle
           /\ n.vm = job[j].vm /\ n.clone = job[j].clone /\ n.st = job[j].st /\ n.pc = "activate"
    BY <1>0, <1>7, AtShapes
  <2>2. PICK r \in Rows :
           /\ row' = r /\ r.cycle = row.cycle /\ r.src = row.src /\ r.vm = row.vm /\ r.st = "active"
           /\ races' \subseteq Races /\ races \subseteq races'
           /\ races' = {} => job[j].cycle = row.cycle
    BY <1>0, <1>7, MoveShapes DEF States
  <2>3. CloneHeld(n) /\ ~Busy(n)
    BY <1>2, <2>1 DEF CloneHeld, Busy
  <2>4. ASSUME races' = {}, Orderly PROVE Current(job[j]) /\ RowOrderly'
    <3>1. JobFits(job[j]) /\ RowOrderly
      BY <2>4 DEF Orderly
    <3>2. Current(job[j])
      BY <1>2, <3>1 DEF JobFits
    <3>3. job[j].vm = row.vm /\ vm[job[j].vm].proven
      BY <1>1, <1>2, <1>7, <3>1, <3>2 DEF JobFits, Transient
    <3>4. RowOrderly'
      BY <1>1, <1>7, <2>2, <3>1, <3>3 DEF RowOrderly, There, Forgetting
    <3> QED BY <3>2, <3>4
  <2>5. r.st \notin Transient /\ row.st \in Transient
    BY <1>7, <2>2 DEF Transient
  <2> QED BY <1>0, <1>1, <1>3, <1>4, <2>1, <2>2, <2>3, <2>4, <2>5, Leaves
<1> QED BY <1>5, <1>6, <1>7 DEF VerifyPromote

\* SetTemplateActive, the second statement of a promotion.
LEMMA ActivateKeeps ==
  ASSUME IInv, NEW j \in Jobs, VerifyActivate(j)
  PROVE  IInv'
<1>0. TypeOK /\ row \in Rows /\ vm \in [VMs -> Machines] /\ races \subseteq Races
  BY DEF IInv, TypeOK
<1>a. job[j].st = "running" /\ job[j].type = "verify" /\ job[j].pc = "activate"
  BY DEF VerifyActivate, Running
<1>b. ~job[j].clone
  BY <1>a DEF IInv, ClonesHeld, CloneHeld
<1>c. CASE FailPlain(j)
  <2>1. ASSUME Orderly, row.st \in Transient, job[j].cycle = row.cycle PROVE FALSE
    BY <1>a, <2>1 DEF Orderly, JobFits, Current, Wizard
  <2>2. Recorded(j)
    BY <1>0, <1>c, <2>1, PlainRecorded DEF FailPlain
  <2> QED BY <1>b, <1>c, <2>2, FailsPlain DEF FailPlain
<1>d. SUFFICES ASSUME SetTemplateActive(TRUE), At(j, "done"), UNCHANGED <<vm, req, sweep, races>>
               PROVE  IInv'
  BY <1>c DEF VerifyActivate, Returned
<1>1. /\ job[j].st = "running" /\ job[j].type = "verify" /\ job[j].pc = "activate"
      /\ SetTemplateActive(TRUE) /\ At(j, "done") /\ UNCHANGED <<vm, req, sweep, races>>
  BY <1>a, <1>d
<1>2. PICK n \in JobRows :
           /\ job' = [job EXCEPT ![j] = n]
           /\ n.type = job[j].type /\ n.cycle = job[j].cycle
           /\ n.vm = job[j].vm /\ n.clone = job[j].clone /\ n.st = job[j].st /\ n.pc = "done"
  BY <1>0, <1>1, AtShapes
<1>3. PICK r \in Rows : row' = r /\ r.st = row.st /\ r.cycle = row.cycle /\ r.src = row.src /\ r.vm = row.vm
  <2>1. CASE Exists
    <3>1. PICK r : r = [[row EXCEPT !.act = TRUE] EXCEPT !.old = FALSE]
      OBVIOUS
    <3>2. r \in Rows /\ r.st = row.st /\ r.cycle = row.cycle /\ r.src = row.src /\ r.vm = row.vm
      BY <1>0, <3>1 DEF Rows
    <3>3. row' = r
      BY <1>1, <2>1, <3>1 DEF SetTemplateActive, SetRow
    <3> QED BY <3>2, <3>3
  <2>2. CASE ~Exists
    BY <1>0, <1>1, <2>2 DEF SetTemplateActive
  <2> QED BY <2>1, <2>2
<1>4. CloneHeld(n) /\ ~Busy(n)
  BY <1>1, <1>2 DEF IInv, ClonesHeld, CloneHeld, Busy
<1>5. Orderly => (Current(n) => r.st \notin Transient)
  <2>1. Current(n) <=> Current(job[j])
    BY <1>2 DEF Current, Wizard
  <2> QED BY <1>1, <1>3, <2>1 DEF Orderly, JobFits
<1>6. Grown(vm)
  BY DEF Grown
<1>7. PICK m : m = vm
  OBVIOUS
<1> QED BY <1>0, <1>1, <1>2, <1>3, <1>4, <1>5, <1>6, <1>7, Leaves

\* The verdict of a revalidation.
LEMMA RevalidateKeeps ==
  ASSUME IInv, NEW j \in Jobs, RevalidateL1Template(j)
  PROVE  IInv'
<1>0. TypeOK /\ row \in Rows
  BY DEF IInv, TypeOK
<1>1. /\ job[j].st = "running" /\ job[j].type = "revalidate" /\ job[j].pc = "promote" /\ Failed(j)
      /\ UNCHANGED <<row, vm, req, sweep, races>>
  BY DEF RevalidateL1Template, Running
<1>2. ~job[j].clone
  BY <1>1 DEF IInv, ClonesHeld, CloneHeld
<1>3. row.st \in Transient => job[j].type # JobFor(row.st)
  BY <1>1 DEF JobFor, Transient
<1>4. Recorded(j)
  BY <1>0, <1>1, <1>3, PlainRecorded
<1> QED BY <1>1, <1>2, <1>4, FailsPlain

\* The inventory pass destroys a smoke clone under its job.
LEMMA SmokeSweptKeeps ==
  ASSUME IInv, NEW j \in Jobs, DestroyInventorySmoke(j)
  PROVE  IInv'
<1>0. TypeOK /\ vm \in [VMs -> Machines] /\ races \subseteq Races
  BY DEF IInv, TypeOK
<1>1. UNCHANGED <<row, vm, req, sweep, races>>
  BY DEF DestroyInventorySmoke
<1>2. PICK n : n = [job[j] EXCEPT !.clone = FALSE, !.pass = FALSE]
  OBVIOUS
<1>3. /\ n \in JobRows /\ n.type = job[j].type /\ n.cycle = job[j].cycle
      /\ n.vm = job[j].vm /\ ~n.clone /\ n.st = job[j].st /\ n.pc = job[j].pc /\ ~n.pass
  BY <1>0, <1>2, OneOfEach DEF JobRows
<1>4. job' = [job EXCEPT ![j] = n]
  BY <1>2 DEF DestroyInventorySmoke, Put
<1>5. ASSUME Orderly PROVE Known(n.vm)' /\ JobFits(n)'
  <2>1. JobFits(job[j]) /\ Known(n.vm)'
    BY <1>1, <1>3, <1>5 DEF Orderly, AllKnown, Known
  <2> QED BY <1>1, <1>3, <2>1 DEF JobFits, Current, Wizard, StateOf, Busy, There
<1>6. Grown(vm) /\ CloneHeld(n)
  BY <1>3 DEF Grown, CloneHeld
<1>7. PICK m : m = vm
  OBVIOUS
<1> QED BY <1>0, <1>1, <1>3, <1>4, <1>5, <1>6, <1>7, Runs

\* CreateTemplateRevalidateJobIfAbsent: the row it takes belonged to no job of the wizard at work.
LEMMA RevalidateJobKeeps ==
  ASSUME IInv, NEW j \in Jobs, CreateTemplateRevalidateJobIfAbsent(j)
  PROVE  IInv'
<1>0. TypeOK /\ row \in Rows /\ vm \in [VMs -> Machines] /\ races \subseteq Races
  BY DEF IInv, TypeOK
<1>1. job[j].st = "none" /\ UNCHANGED <<row, vm, req, sweep, races>>
  BY DEF CreateTemplateRevalidateJobIfAbsent, Insert
<1>2. PICK n : n = [NoJob EXCEPT !.type = "revalidate", !.st = "pending", !.vm = row.vm, !.cycle = row.cycle]
  OBVIOUS
<1>3. row.vm \in VMs \cup {NoVM} /\ row.cycle \in Nat
  BY <1>0 DEF Rows
<1>4. n \in JobRows /\ n.type = "revalidate" /\ n.vm = row.vm /\ ~n.clone
  <2>1. PICK o : o = NoJob
    OBVIOUS
  <2>2. o \in JobRows /\ ~o.clone /\ o.pc = "start"
    BY <2>1, Blank
  <2>3. n = [o EXCEPT !.type = "revalidate", !.st = "pending", !.vm = row.vm, !.cycle = row.cycle]
    BY <1>2, <2>1
  <2>4. /\ n \in JobRows /\ n.type = "revalidate" /\ n.st = "pending" /\ n.vm = row.vm /\ n.cycle = row.cycle
        /\ n.clone = o.clone /\ n.pc = o.pc
    BY <1>3, <2>2, <2>3 DEF JobRows, JobTypes
  <2> QED BY <2>2, <2>4
<1>5. job' = [job EXCEPT ![j] = n]
  BY <1>2 DEF CreateTemplateRevalidateJobIfAbsent, Insert
<1>6. ~Wizard(n) /\ CloneHeld(n)
  BY <1>4 DEF Wizard, CloneHeld
<1>7. JobFits(n)'
  BY <1>6 DEF JobFits, Busy, Current, Wizard
<1>8. Orderly => Known(n.vm)' /\ ~(Current(job[j]) /\ row.st \in Transient)
  BY <1>1, <1>4 DEF Orderly, AllKnown, Known, JobFits
<1>9. PICK r : r = row
  OBVIOUS
<1>10. PICK m : m = vm
  OBVIOUS
<1>11. Grown(vm) /\ JobMoves(job[j], n, row)
  BY DEF Grown, JobMoves
<1> QED BY <1>0, <1>1, <1>4, <1>5, <1>6, <1>7, <1>8, <1>9, <1>10, <1>11, BodyStep

\* The row and the VMs after a statement of a handler: the same row with nothing
\* lost, or one at rest that keeps its VM or has none.
HandlerMoves(q, r, m) ==
    /\ r.cycle = row.cycle
    /\ \/ /\ r.st = row.st /\ r.vm = row.vm /\ r.src = row.src
          /\ Grown(m) /\ ~Enqueues(q)
          /\ \A v \in VMs : /\ vm[v].on \/ vm[v].gen => m[v].on \/ m[v].gen
                            /\ vm[v].proven => m[v].proven
       \/ /\ r.st \notin Transient /\ (row.st \notin Transient \/ Enqueues(q))
          /\ \A v \in VMs : /\ vm[v].st # "unused" => m[v].st # "unused"
                            /\ vm[v].st = "gone" => m[v].st = "gone"
          /\ \/ r.vm = row.vm /\ (row.vm = NoVM \/ r.st = row.st \/ row.st # "error")
             \/ r.vm = NoVM /\ (row.vm = NoVM \/ vm[row.vm].st = "gone")

\* The jobs and the other requests still fit.
LEMMA HandlerKeeps ==
  ASSUME TypeOK, Orderly, NEW a \in Admins, NEW q \in Requests, NEW r \in Rows, NEW m \in [VMs -> Machines],
         req' = [req EXCEPT ![a] = q], row' = r, vm' = m, UNCHANGED <<job, sweep>>,
         ~Enqueues(q), q.cycle <= row.cycle, HandlerMoves(req[a], r, m),
         Known(q.vm)', ReqFits(q)', RowOrderly'
  PROVE  Orderly'
<1>1. req'[a] = q /\ \A b \in Admins \ {a} : req'[b] = req[b]
  BY DEF TypeOK
<1>2. r.cycle = row.cycle
  BY DEF HandlerMoves
<1>3. OneWorker'
  BY <1>1, <1>2 DEF Orderly, OneWorker, Current, Enqueues, Wizard
<1>4. /\ row.vm \in VMs \cup {NoVM} /\ sweep.vm \in VMs \cup {NoVM}
      /\ \A k \in Jobs : job[k].vm \in VMs \cup {NoVM}
      /\ \A b \in Admins : req[b].vm \in VMs \cup {NoVM}
  BY OneOfEach DEF Rows, Sweeps, JobRows, Requests
<1>5. ASSUME NEW v, v \in VMs \cup {NoVM}, Known(v) PROVE Known(v)'
  BY <1>5 DEF Known, Grown, HandlerMoves
<1>6. AllKnown'
  <2>1. Known(row.vm) /\ Known(sweep.vm) /\ (\A k \in Jobs : Known(job[k].vm)) /\ \A b \in Admins : Known(req[b].vm)
    BY DEF Orderly, AllKnown
  <2>2. \A k \in Jobs : Known(job[k].vm)'
    BY <1>4, <1>5, <2>1 DEF Known
  <2>3. Known(row.vm)'
    BY <1>4, <1>5, <2>1 DEF HandlerMoves, Known
  <2>4. Known(sweep.vm)' /\ \A b \in Admins \ {a} : Known(req[b].vm)'
    BY <1>1, <1>4, <1>5, <2>1 DEF Known
  <2> QED BY <1>1, <2>2, <2>3, <2>4 DEF AllKnown, Known
<1>7. CASE /\ r.st = row.st /\ r.vm = row.vm /\ r.src = row.src /\ Grown(m) /\ ~Enqueues(req[a])
           /\ \A v \in VMs : /\ vm[v].on \/ vm[v].gen => m[v].on \/ m[v].gen
                             /\ vm[v].proven => m[v].proven
  <2>1. Served'
    BY <1>1, <1>2, <1>7 DEF Orderly, Served, Current, Enqueues, Wizard
  <2>2. SweepOrderly'
    BY <1>4, <1>7 DEF Orderly, SweepOrderly, AllKnown, Known, Grown
  <2>3. ASSUME NEW b \in Admins \ {a} PROVE ReqFits(req[b])'
    <3>1. ReqFits(req[b]) /\ req'[b] = req[b]
      BY <1>1 DEF Orderly
    <3>2. row.vm # NoVM => vm'[row.vm].st = vm[row.vm].st
      BY <1>4, <1>7 DEF Orderly, AllKnown, Known, Grown
    <3> QED BY <1>2, <1>7, <3>1, <3>2 DEF ReqFits, Enqueues
  <2>4. \A b \in Admins : ReqFits(req[b])'
    BY <1>1, <2>3 DEF ReqFits, Enqueues
  <2>5. ASSUME NEW k \in Jobs PROVE JobFits(job[k])'
    <3>1. PICK n : n = job[k]
      OBVIOUS
    <3>2. JobFits(n) /\ job'[k] = n /\ n.vm \in VMs \cup {NoVM} /\ Known(n.vm)
      BY <1>4, <3>1 DEF Orderly, AllKnown
    <3>3. (Busy(n)' <=> Busy(n)) /\ (Current(n)' <=> Current(n))
      BY <1>2 DEF Busy, Current, Wizard
    <3>4. n.vm # NoVM => /\ vm[n.vm].on \/ vm[n.vm].gen => vm'[n.vm].on \/ vm'[n.vm].gen
                         /\ vm[n.vm].gen => vm'[n.vm].gen
                         /\ vm[n.vm].snap => vm'[n.vm].snap
                         /\ There(n.vm) => There(n.vm)'
                         /\ vm[n.vm].proven => vm'[n.vm].proven
      BY <1>7, <3>2 DEF Grown, Known, There
    <3>5. row'.st = row.st /\ row'.vm = row.vm /\ row'.src = row.src /\ sweep' = sweep
      BY <1>7
    <3>6. Busy(n) /\ n.type # "provision" => n.vm # NoVM
      <4>1. Busy(n) => Current(n) /\ row.st = StateOf(n)
        BY <3>2 DEF JobFits
      <4>2. StateOf(n) \in Transient
        BY DEF StateOf, Transient
      <4> QED BY <3>2, <4>1, <4>2 DEF JobFits
    <3>7. JobFits(n)'
      <4>1. (Busy(n) => Current(n) /\ row.st = StateOf(n))'
        BY <3>2, <3>3, <3>5 DEF JobFits, StateOf
      <4>2. (Busy(n) /\ n.type = "provision" /\ n.pc \in {"record", "boot", "advance"} =>
               /\ n.vm # NoVM
               /\ sweep.pc = "destroy" => n.vm # sweep.vm
               /\ n.pc # "record" => row.vm = n.vm
               /\ n.pc = "advance" => vm[n.vm].on \/ vm[n.vm].gen)'
        BY <3>2, <3>3, <3>4, <3>5 DEF JobFits
      <4>3. (Busy(n) /\ n.type = "generalize" =>
               /\ n.pc = "off" => row.src = "clone_skip"
               /\ n.pc \in {"snapshot", "ready"} => row.src = "clone_skip" \/ vm[n.vm].gen
               /\ n.pc = "ready" => There(n.vm) /\ vm[n.vm].snap)'
        BY <3>2, <3>3, <3>4, <3>5, <3>6 DEF JobFits
      <4>4. (Current(n) /\ row.st \in Transient =>
               /\ n.st \in {"pending", "running"} /\ n.pc \notin {"done", "activate"} /\ row.st = StateOf(n)
               /\ n.type # "provision" => n.vm = row.vm /\ row.vm # NoVM)'
        BY <3>2, <3>3, <3>5 DEF JobFits, StateOf, Transient
      <4>5. (Busy(n) /\ n.type = "verify" /\ (n.pc = "promote" \/ (n.pc = "destroy" /\ n.pass)) => vm[n.vm].proven)'
        BY <3>2, <3>3, <3>4, <3>6 DEF JobFits
      <4> QED BY <4>1, <4>2, <4>3, <4>4, <4>5 DEF JobFits
    <3> QED BY <3>2, <3>7 DEF JobFits, Busy, Current, Wizard, StateOf
  <2> QED BY <1>3, <1>6, <2>1, <2>2, <2>4, <2>5 DEF Orderly
<1>8. CASE /\ r.st \notin Transient /\ (row.st \notin Transient \/ Enqueues(req[a]))
           /\ \A v \in VMs : /\ vm[v].st # "unused" => m[v].st # "unused"
                             /\ vm[v].st = "gone" => m[v].st = "gone"
           /\ \/ r.vm = row.vm /\ (row.vm = NoVM \/ r.st = row.st \/ row.st # "error")
              \/ r.vm = NoVM /\ (row.vm = NoVM \/ vm[row.vm].st = "gone")
  <2>1. Served'
    BY <1>8 DEF Served
  <2>2. SweepOrderly'
    BY <1>4, <1>8 DEF Orderly, SweepOrderly
  <2>3. ASSUME NEW b \in Admins \ {a} PROVE ReqFits(req[b])'
    <3>1. ReqFits(req[b]) /\ req'[b] = req[b]
      BY <1>1 DEF Orderly
    <3>2. ~Enqueues(req[b])
      <4>1. CASE row.st \notin Transient
        BY <3>1, <4>1 DEF ReqFits
      <4>2. CASE Enqueues(req[a])
        BY <4>2 DEF Orderly, OneWorker
      <4> QED BY <1>8, <4>1, <4>2
    <3>3. row.vm # NoVM /\ vm[row.vm].st = "gone" => vm'[row.vm].st = "gone"
      BY <1>4, <1>8
    <3> QED BY <1>2, <1>8, <3>1, <3>2, <3>3 DEF ReqFits, Enqueues
  <2>4. \A b \in Admins : ReqFits(req[b])'
    BY <1>1, <2>3 DEF ReqFits, Enqueues
  <2>5. ASSUME NEW k \in Jobs PROVE JobFits(job[k])'
    <3>1. ~Busy(job[k])
      <4>1. CASE row.st \notin Transient
        <5>1. StateOf(job[k]) \in Transient
          BY DEF StateOf, Transient
        <5> QED BY <4>1, <5>1 DEF Orderly, JobFits
      <4>2. CASE Enqueues(req[a])
        BY <4>2 DEF Orderly, OneWorker, JobFits
      <4> QED BY <1>8, <4>1, <4>2
    <3>2. ~Busy(job[k])'
      BY <3>1 DEF Busy, Wizard
    <3> QED BY <1>8, <3>2 DEF JobFits
  <2> QED BY <1>3, <1>6, <2>1, <2>2, <2>4, <2>5 DEF Orderly
<1> QED BY <1>7, <1>8 DEF HandlerMoves

\* A statement of a handler keeps the invariant if it moves row, VMs and request in that way
\* whenever no race has happened.
LEMMA HandlerStep ==
  ASSUME IInv, NEW a \in Admins, NEW q \in Requests, NEW r \in Rows, NEW m \in [VMs -> Machines],
         req' = [req EXCEPT ![a] = q], row' = r, vm' = m, UNCHANGED <<job, sweep>>,
         races' \subseteq Races, races \subseteq races',
         races' = {} /\ Orderly =>
           /\ ~Enqueues(q) /\ q.cycle <= row.cycle /\ HandlerMoves(req[a], r, m)
           /\ Known(q.vm)' /\ ReqFits(q)' /\ RowOrderly'
  PROVE  IInv'
<1>1. TypeOK /\ ClonesHeld /\ (races = {} => Orderly)
  BY DEF IInv
<1>2. TypeOK'
  BY <1>1 DEF TypeOK
<1>3. ClonesHeld'
  BY <1>1 DEF ClonesHeld, CloneHeld
<1>4. ASSUME races' = {} PROVE Orderly'
  <2>1. Orderly
    BY <1>1, <1>4
  <2>2. /\ ~Enqueues(q) /\ q.cycle <= row.cycle /\ HandlerMoves(req[a], r, m)
        /\ Known(q.vm)' /\ ReqFits(q)' /\ RowOrderly'
    BY <1>4, <2>1
  <2> QED BY <1>1, <2>1, <2>2, HandlerKeeps
<1> QED BY <1>2, <1>3, <1>4 DEF IInv

\* A request that is over.
LEMMA Closed ==
  ASSUME IInv
  PROVE  /\ NoReq \in Requests /\ ~Enqueues(NoReq) /\ (Orderly => NoReq.cycle <= row.cycle)
         /\ Known(NoReq.vm)' /\ ReqFits(NoReq)'
<1>1. row.cycle \in Nat
  BY DEF IInv, TypeOK, Rows
<1>2. Known(NoReq.vm)'
  BY Blank DEF Known
<1>3. ~Enqueues(NoReq)
  BY Blank DEF Enqueues
<1>4. ReqFits(NoReq)'
  BY Blank DEF ReqFits, Enqueues
<1> QED BY <1>1, <1>2, <1>3, <1>4, Blank

\* A later statement of a handler: its request still holds, or it is a race.
LEMMA OvertakenShapes ==
  ASSUME TypeOK, NEW a \in Admins, Overtaken(a)
  PROVE  /\ races \subseteq races' /\ races' \subseteq Races
         /\ races' = {} => req[a].cycle = row.cycle
BY DEF TypeOK, Overtaken, Races

\* Somebody still is about to forget a VM, unless it was this request.
LEMMA ForgetKept ==
  ASSUME TypeOK, NEW a \in Admins, NEW q, req' = [req EXCEPT ![a] = q], NEW v, Forgetting(v),
         req[a].op \in {"cancel_clear", "delete"} => q.op \in {"cancel_clear", "delete"} /\ q.vm = req[a].vm
  PROVE  Forgetting(v)'
<1>1. req'[a] = q /\ \A b \in Admins \ {a} : req'[b] = req[b]
  BY DEF TypeOK
<1>2. PICK b \in Admins : req[b].op \in {"cancel_clear", "delete"} /\ req[b].vm = v
  BY DEF Forgetting
<1>3. req'[b].op \in {"cancel_clear", "delete"} /\ req'[b].vm = v
  BY <1>1, <1>2
<1> QED BY <1>3 DEF Forgetting

\* A row in the same state with the same VM, of which nothing is lost.
LEMMA RowKept ==
  ASSUME TypeOK, Orderly, NEW a \in Admins, NEW q, req' = [req EXCEPT ![a] = q],
         NEW r, row' = r, r.st = row.st, r.vm = row.vm, r.src = row.src, NEW m, vm' = m, Grown(m),
         req[a].op \notin {"cancel_clear", "delete"}
  PROVE  RowOrderly'
<1>1. RowOrderly /\ row.vm \in VMs \cup {NoVM} /\ Known(row.vm)
  BY OneOfEach DEF Orderly, AllKnown, Rows
<1>2. Forgetting(row.vm) => Forgetting(row.vm)'
  BY ForgetKept
<1>3. Forgetting(row.vm) => Forgetting(r.vm)'
  BY <1>2 DEF Forgetting
<1>4. row.vm # NoVM => /\ vm[row.vm].gen => m[row.vm].gen
                       /\ vm[row.vm].snap => m[row.vm].snap
                       /\ row.st = "verifying" \/ (vm[row.vm].proven => m[row.vm].proven)
                       /\ vm[row.vm].st = m[row.vm].st
                       /\ row.src = "clone_skip" \/ (vm[row.vm].on \/ vm[row.vm].gen => m[row.vm].on \/ m[row.vm].gen)
  BY <1>1 DEF Grown, Known
<1>5. row.vm # NoVM /\ There(row.vm) => There(row.vm)'
  BY <1>4 DEF There
<1>6. CASE row.vm = NoVM
  BY <1>6 DEF RowOrderly
<1>7. ASSUME row.vm # NoVM, row.st \in {"ready", "verifying", "active"}
      PROVE  ((There(row.vm) /\ vm[row.vm].snap) \/ Forgetting(row.vm))'
  <2>1. (There(row.vm) /\ vm[row.vm].snap) \/ Forgetting(row.vm)
    BY <1>1, <1>7 DEF RowOrderly
  <2>2. CASE There(row.vm) /\ vm[row.vm].snap
    BY <1>4, <1>5, <1>7, <2>2 DEF There
  <2>3. CASE Forgetting(row.vm)
    BY <1>3, <2>3 DEF Forgetting
  <2> QED BY <2>1, <2>2, <2>3
<1>8. CASE row.vm # NoVM
  BY <1>1, <1>4, <1>7, <1>8 DEF RowOrderly
<1> QED BY <1>6, <1>8

\* A handler that closes its request.
LEMMA Closes ==
  ASSUME IInv, NEW a \in Admins, Close(a), NEW r \in Rows, row' = r, UNCHANGED <<vm, job, sweep>>,
         races' \subseteq Races, races \subseteq races',
         races' = {} /\ Orderly => HandlerMoves(req[a], r, vm) /\ RowOrderly'
  PROVE  IInv'
<1>1. PICK m : m = vm
  OBVIOUS
<1>2. m \in [VMs -> Machines] /\ vm' = m
  BY <1>1 DEF IInv, TypeOK
<1>3. PICK q : q = NoReq
  OBVIOUS
<1>4. req' = [req EXCEPT ![a] = q]
  BY <1>3 DEF Close, Open
<1>5. q \in Requests /\ ~Enqueues(q) /\ (Orderly => q.cycle <= row.cycle) /\ Known(q.vm)' /\ ReqFits(q)'
  BY <1>3, Closed
<1> QED BY <1>1, <1>2, <1>4, <1>5, HandlerStep

\* A request that reads and leaves everything else alone.
LEMMA Reads ==
  ASSUME IInv, NEW a \in Admins, NEW q \in Requests, req' = [req EXCEPT ![a] = q],
         UNCHANGED <<row, vm, job, sweep>>, races' \subseteq Races, races \subseteq races',
         races' = {} => ~Enqueues(req[a]) /\ req[a].op \notin {"cancel_clear", "delete"},
         races' = {} /\ Orderly => ~Enqueues(q) /\ q.cycle <= row.cycle /\ Known(q.vm) /\ ReqFits(q)
  PROVE  IInv'
<1>1. PICK m : m = vm
  OBVIOUS
<1>2. PICK r : r = row
  OBVIOUS
<1>3. m \in [VMs -> Machines] /\ vm' = m /\ r \in Rows /\ row' = r /\ TypeOK
  BY <1>1, <1>2 DEF IInv, TypeOK
<1>4. ASSUME races' = {}, Orderly PROVE HandlerMoves(req[a], r, m) /\ RowOrderly' /\ Known(q.vm)' /\ ReqFits(q)'
  <2>1. Grown(m)
    BY <1>1 DEF Grown
  <2>2. RowOrderly'
    BY <1>2, <1>3, <1>4, <2>1, RowKept
  <2>3. Known(q.vm)' /\ ReqFits(q)'
    BY <1>4 DEF Known, ReqFits, Enqueues
  <2>4. HandlerMoves(req[a], r, m)
    BY <1>1, <1>2, <1>4, <2>1 DEF HandlerMoves
  <2> QED BY <2>2, <2>3, <2>4
<1> QED BY <1>3, <1>4, HandlerStep

\* The INSERT of a template.
LEMMA CreateKeeps ==
  ASSUME IInv, NEW a \in Admins, CreateTemplate(a)
  PROVE  IInv'
<1>0. TypeOK /\ row \in Rows /\ vm \in [VMs -> Machines] /\ races \subseteq Races
  BY DEF IInv, TypeOK
<1>1. PICK s \in Sources : row' = [row EXCEPT !.st = "active", !.act = TRUE, !.src = s]
  BY DEF CreateTemplate
<1>2. row.st = "none" /\ UNCHANGED <<vm, job, sweep, races>>
  BY DEF CreateTemplate
<1>3. PICK r : r = [row EXCEPT !.st = "active", !.act = TRUE, !.src = s]
  OBVIOUS
<1>4. r \in Rows /\ row' = r /\ r.st = "active" /\ r.vm = row.vm /\ r.cycle = row.cycle
  BY <1>0, <1>1, <1>3 DEF Rows, States
<1>5. PICK q : q = [NoReq EXCEPT !.op = "draft", !.cycle = row.cycle]
  OBVIOUS
<1>6. q \in Requests /\ q.op = "draft" /\ q.vm = NoVM /\ q.cycle = row.cycle
  BY <1>0, <1>5 DEF Requests, NoReq, Rows
<1>7. req' = [req EXCEPT ![a] = q]
  BY <1>5 DEF CreateTemplate, Open
<1>8. ~Enqueues(q) /\ q.cycle <= row.cycle /\ Known(q.vm)'
  BY <1>0, <1>6 DEF Enqueues, Known, Rows
<1>9. ASSUME Orderly PROVE HandlerMoves(req[a], r, vm) /\ ReqFits(q)' /\ RowOrderly'
  <2>1. row.vm = NoVM
    BY <1>2, <1>9 DEF Orderly, RowOrderly
  <2>2. HandlerMoves(req[a], r, vm)
    BY <1>2, <1>4, <2>1 DEF HandlerMoves, Transient
  <2>3. ReqFits(q)'
    BY <1>4, <1>6, <2>1 DEF ReqFits, Enqueues, Transient
  <2>4. RowOrderly'
    BY <1>4, <2>1 DEF RowOrderly
  <2> QED BY <2>2, <2>3, <2>4
<1>10. PICK m : m = vm
  OBVIOUS
<1> QED BY <1>0, <1>2, <1>4, <1>6, <1>7, <1>8, <1>9, <1>10, HandlerStep

\* AdminCreateTemplateDraft, the second statement.
LEMMA DraftKeeps ==
  ASSUME IInv, NEW a \in Admins, AdminCreateTemplateDraft(a)
  PROVE  IInv'
<1>0. TypeOK /\ row \in Rows
  BY DEF IInv, TypeOK
<1>1. req[a].op = "draft" /\ Close(a) /\ Overtaken(a) /\ UNCHANGED <<vm, job, sweep>>
  BY DEF AdminCreateTemplateDraft
<1>2. PICK r \in Rows : row' = r /\ r.vm = row.vm /\ r.cycle = row.cycle /\ (r.st = "draft" \/ r = row)
  <2>1. CASE Exists
    <3>1. PICK r : r = [[row EXCEPT !.st = "draft", !.act = FALSE] EXCEPT !.old = FALSE]
      OBVIOUS
    <3>2. r \in Rows /\ r.st = "draft" /\ r.vm = row.vm /\ r.cycle = row.cycle
      BY <1>0, <3>1 DEF Rows, States
    <3>3. row' = r
      BY <2>1, <3>1 DEF AdminCreateTemplateDraft, SetRow
    <3> QED BY <3>2, <3>3
  <2>2. CASE ~Exists
    BY <1>0, <2>2 DEF AdminCreateTemplateDraft
  <2> QED BY <2>1, <2>2
<1>3. /\ races \subseteq races' /\ races' \subseteq Races
      /\ races' = {} => req[a].cycle = row.cycle
  BY <1>0, <1>1, OvertakenShapes
<1>4. ASSUME races' = {}, Orderly PROVE HandlerMoves(req[a], r, vm) /\ RowOrderly'
  <2>1. row.st \notin Transient /\ row.vm = NoVM
    BY <1>1, <1>3, <1>4 DEF Orderly, ReqFits
  <2>2. HandlerMoves(req[a], r, vm)
    BY <1>2, <2>1 DEF HandlerMoves, Transient
  <2>3. RowOrderly'
    BY <1>2, <2>1 DEF RowOrderly
  <2> QED BY <2>2, <2>3
<1> QED BY <1>1, <1>2, <1>3, <1>4, Closes

\* CreateJob failed: the transition is taken back.
LEMMA EnqueueFailedKeeps ==
  ASSUME IInv, NEW a \in Admins, EnqueueFailed(a)
  PROVE  IInv'
<1>0. TypeOK /\ row \in Rows
  BY DEF IInv, TypeOK
<1>1. /\ req[a].op = "enqueue" /\ Close(a) /\ Overtaken(a) /\ UNCHANGED <<vm, job, sweep>>
      /\ UpdateTemplateLifecycleState(req[a].to, req[a].from)
  BY DEF EnqueueFailed
<1>2. PICK f : f = req[a].from
  OBVIOUS
<1>3. f \in States \cup {"none"}
  BY <1>0, <1>2, OneOfEach DEF Requests
<1>4. PICK r \in Rows : /\ row' = r /\ r.vm = row.vm /\ r.cycle = row.cycle /\ r.src = row.src
                        /\ row.st = req[a].to => r.st = f
                        /\ row.st # req[a].to => r = row
  <2>1. CASE row.st = req[a].to
    <3>1. PICK r : r = [[row EXCEPT !.st = f] EXCEPT !.old = FALSE]
      OBVIOUS
    <3>2. r \in Rows /\ r.st = f /\ r.vm = row.vm /\ r.cycle = row.cycle /\ r.src = row.src
      BY <1>0, <1>3, <3>1 DEF Rows
    <3>3. row' = r
      BY <1>1, <1>2, <2>1, <3>1 DEF UpdateTemplateLifecycleState, SetRow
    <3> QED BY <2>1, <3>2, <3>3
  <2>2. CASE row.st # req[a].to
    BY <1>0, <1>1, <2>2 DEF UpdateTemplateLifecycleState
  <2> QED BY <2>1, <2>2
<1>5. races \subseteq races' /\ races' \subseteq Races
  BY <1>0, <1>1, OvertakenShapes
<1>6. ASSUME Orderly PROVE HandlerMoves(req[a], r, vm) /\ RowOrderly'
  <2>0. Enqueues(req[a]) /\ ReqFits(req[a])
    BY <1>1, <1>6 DEF Enqueues, Orderly
  <2>1. row.st = req[a].to /\ row.st \in Transient /\ r.st = f
    BY <1>4, <2>0 DEF ReqFits
  <2>2. /\ row.st = "provisioning" => f = "draft" /\ row.vm = NoVM
        /\ row.st = "generalizing" => f = "configuring"
        /\ row.st = "verifying" => f = "ready"
    BY <1>2, <2>0, <2>1 DEF ReqFits
  <2>3. f \notin Transient
    BY <2>1, <2>2 DEF Transient
  <2>4. HandlerMoves(req[a], r, vm)
    BY <1>4, <2>0, <2>1, <2>3 DEF HandlerMoves, Transient
  <2>5. PICK q : q = NoReq
    OBVIOUS
  <2>6. req' = [req EXCEPT ![a] = q]
    BY <1>1, <2>5 DEF Close, Open
  <2>7. PICK w : w = row.vm
    OBVIOUS
  <2>8. Forgetting(w) => Forgetting(w)'
    BY <1>0, <1>1, <2>6, ForgetKept
  <2>9. row'.vm = w /\ vm' = vm /\ row'.src = row.src /\ row'.st = f
    BY <1>1, <1>4, <2>1, <2>7
  <2>10. RowOrderly'
    <3>1. RowOrderly
      BY <1>6 DEF Orderly
    <3>2. CASE row.st = "provisioning"
      BY <2>2, <2>7, <2>9, <3>2 DEF RowOrderly
    <3>3. CASE row.st = "generalizing"
      BY <2>2, <2>7, <2>9, <3>1, <3>3 DEF RowOrderly
    <3>4. CASE row.st = "verifying"
      BY <2>2, <2>7, <2>8, <2>9, <3>1, <3>4 DEF RowOrderly, There, Forgetting
    <3> QED BY <2>1, <3>2, <3>3, <3>4 DEF Transient
  <2> QED BY <2>4, <2>10
<1> QED BY <1>1, <1>4, <1>5, <1>6, Closes

\* AdminUnpublishTemplate: active -> ready.
LEMMA UnpublishKeeps ==
  ASSUME IInv, NEW a \in Admins, AdminUnpublishTemplate(a)
  PROVE  IInv'
<1>0. TypeOK /\ row \in Rows /\ vm \in [VMs -> Machines] /\ races \subseteq Races
  BY DEF IInv, TypeOK
<1>1. req[a].op = "idle" /\ row.st = "active" /\ UNCHANGED <<vm, job, sweep, races>>
  BY DEF AdminUnpublishTemplate
<1>2. PICK r : r = [[row EXCEPT !.st = "ready"] EXCEPT !.old = FALSE]
  OBVIOUS
<1>3. r \in Rows /\ r.st = "ready" /\ r.vm = row.vm /\ r.cycle = row.cycle /\ r.src = row.src
  BY <1>0, <1>2, RowShapes DEF States
<1>4. row' = r
  BY <1>1, <1>2 DEF AdminUnpublishTemplate, UpdateTemplateLifecycleState, SetRow
<1>5. PICK q : q = [NoReq EXCEPT !.op = "hide", !.cycle = row.cycle]
  OBVIOUS
<1>6. q \in Requests /\ q.op = "hide" /\ q.vm = NoVM /\ q.cycle = row.cycle
  BY <1>0, <1>5 DEF Requests, NoReq, Rows
<1>7. req' = [req EXCEPT ![a] = q]
  BY <1>5 DEF AdminUnpublishTemplate, Open
<1>8. ~Enqueues(q) /\ q.cycle <= row.cycle /\ Known(q.vm)'
  BY <1>0, <1>6 DEF Enqueues, Known, Rows
<1>9. ASSUME Orderly PROVE HandlerMoves(req[a], r, vm) /\ ReqFits(q)' /\ RowOrderly'
  <2>2. HandlerMoves(req[a], r, vm)
    BY <1>1, <1>3 DEF HandlerMoves, Transient
  <2>3. ReqFits(q)'
    BY <1>3, <1>4, <1>6 DEF ReqFits, Enqueues, Transient
  <2>4. PICK w : w = row.vm
    OBVIOUS
  <2>5. Forgetting(w) => Forgetting(w)'
    BY <1>0, <1>1, <1>7, ForgetKept
  <2>6. row'.vm = w /\ vm' = vm /\ row'.src = row.src /\ row'.st = "ready"
    BY <1>1, <1>3, <1>4, <2>4
  <2>7. RowOrderly
    BY <1>9 DEF Orderly
  <2>8. RowOrderly'
    BY <1>1, <2>4, <2>5, <2>6, <2>7 DEF RowOrderly, There, Forgetting
  <2> QED BY <2>2, <2>3, <2>8
<1>10. PICK m : m = vm
  OBVIOUS
<1> QED BY <1>0, <1>1, <1>3, <1>4, <1>6, <1>7, <1>8, <1>9, <1>10, HandlerStep

\* Its second statement.
LEMMA HideKeeps ==
  ASSUME IInv, NEW a \in Admins, Hide(a)
  PROVE  IInv'
<1>0. TypeOK /\ row \in Rows
  BY DEF IInv, TypeOK
<1>1. req[a].op = "hide" /\ Close(a) /\ Overtaken(a) /\ UNCHANGED <<vm, job, sweep>> /\ SetTemplateActive(FALSE)
  BY DEF Hide
<1>2. PICK r \in Rows : row' = r /\ r.st = row.st /\ r.cycle = row.cycle /\ r.src = row.src /\ r.vm = row.vm
  <2>1. CASE Exists
    <3>1. PICK r : r = [[row EXCEPT !.act = FALSE] EXCEPT !.old = FALSE]
      OBVIOUS
    <3>2. r \in Rows /\ r.st = row.st /\ r.cycle = row.cycle /\ r.src = row.src /\ r.vm = row.vm
      BY <1>0, <3>1 DEF Rows
    <3>3. row' = r
      BY <1>1, <2>1, <3>1 DEF SetTemplateActive, SetRow
    <3> QED BY <3>2, <3>3
  <2>2. CASE ~Exists
    BY <1>0, <1>1, <2>2 DEF SetTemplateActive
  <2> QED BY <2>1, <2>2
<1>3. races \subseteq races' /\ races' \subseteq Races
  BY <1>0, <1>1, OvertakenShapes
<1>4. Grown(vm) /\ ~Enqueues(req[a])
  BY <1>1 DEF Grown, Enqueues
<1>5. ASSUME Orderly PROVE HandlerMoves(req[a], r, vm) /\ RowOrderly'
  <2>1. HandlerMoves(req[a], r, vm)
    BY <1>2, <1>4 DEF HandlerMoves
  <2>2. PICK q : q = NoReq
    OBVIOUS
  <2>3. req' = [req EXCEPT ![a] = q]
    BY <1>1, <2>2 DEF Close, Open
  <2>4. RowOrderly'
    <3>1. PICK m : m = vm
      OBVIOUS
    <3> QED BY <1>0, <1>1, <1>2, <1>4, <1>5, <2>3, <3>1, RowKept
  <2> QED BY <2>1, <2>4
<1> QED BY <1>1, <1>2, <1>3, <1>5, Closes

\* AdminRetryTemplate: a failed template without a VM is a draft again.
LEMMA RetryKeeps ==
  ASSUME IInv, NEW a \in Admins, AdminRetryTemplate(a)
  PROVE  IInv'
<1>0. TypeOK /\ row \in Rows /\ vm \in [VMs -> Machines] /\ races \subseteq Races
  BY DEF IInv, TypeOK
<1>1. /\ req[a].op = "idle" /\ row.st = "error" /\ row.vm = NoVM
      /\ UNCHANGED <<vm, job, req, sweep, races>>
  BY DEF AdminRetryTemplate
<1>2. PICK r : r = [[row EXCEPT !.st = "draft"] EXCEPT !.old = FALSE]
  OBVIOUS
<1>3. r \in Rows /\ r.st = "draft" /\ r.vm = row.vm /\ r.cycle = row.cycle /\ r.src = row.src
  BY <1>0, <1>2, RowShapes DEF States
<1>4. row' = r
  BY <1>1, <1>2 DEF AdminRetryTemplate, UpdateTemplateLifecycleState, SetRow
<1>5. PICK q : q = req[a]
  OBVIOUS
<1>6. q \in Requests /\ q.op = "idle" /\ req' = [req EXCEPT ![a] = q]
  BY <1>0, <1>1, <1>5, OneOfEach DEF TypeOK
<1>7. ASSUME Orderly
      PROVE  /\ ~Enqueues(q) /\ q.cycle <= row.cycle /\ HandlerMoves(req[a], r, vm)
             /\ Known(q.vm)' /\ ReqFits(q)' /\ RowOrderly'
  <2>1. ~Enqueues(q) /\ ReqFits(q)'
    BY <1>6 DEF Enqueues, ReqFits
  <2>2. q.cycle <= row.cycle /\ Known(q.vm)'
    BY <1>1, <1>5, <1>7 DEF Orderly, OneWorker, AllKnown, Known
  <2>3. HandlerMoves(req[a], r, vm)
    BY <1>1, <1>3 DEF HandlerMoves, Transient
  <2>4. RowOrderly'
    BY <1>1, <1>3, <1>4 DEF RowOrderly
  <2> QED BY <2>1, <2>2, <2>3, <2>4
<1>8. PICK m : m = vm
  OBVIOUS
<1> QED BY <1>0, <1>1, <1>3, <1>4, <1>6, <1>7, <1>8, HandlerStep

\* A VM that is destroyed loses nothing but its existence.
LEMMA DestroyedShapes ==
  ASSUME TypeOK, NEW v, NEW m, m = Destroyed(v)
  PROVE  /\ m \in [VMs -> Machines]
         /\ \A w \in VMs : /\ m[w].on = vm[w].on /\ m[w].gen = vm[w].gen
                           /\ m[w].snap = vm[w].snap /\ m[w].proven = vm[w].proven
                           /\ vm[w].st # "unused" => m[w].st # "unused"
                           /\ vm[w].st = "gone" => m[w].st = "gone"
                           /\ w # v => m[w].st = vm[w].st
         /\ v \in VMs /\ vm[v].st # "unused" => m[v].st = "gone"
<1>0. vm \in [VMs -> Machines]
  BY DEF TypeOK
<1>1. CASE There(v)
  <2>1. v \in VMs /\ vm[v].st = "there"
    BY <1>1 DEF There
  <2>2. PICK o : o = [vm[v] EXCEPT !.st = "gone"]
    OBVIOUS
  <2>3. /\ o \in Machines /\ o.st = "gone" /\ o.gen = vm[v].gen /\ o.on = vm[v].on
        /\ o.snap = vm[v].snap /\ o.proven = vm[v].proven
    BY <1>0, <2>1, <2>2, OneOfEach DEF Machines
  <2>4. m = [vm EXCEPT ![v] = o]
    BY <1>1, <2>2 DEF Destroyed
  <2>5. m \in [VMs -> Machines] /\ m[v] = o /\ \A w \in VMs \ {v} : m[w] = vm[w]
    BY <1>0, <2>1, <2>3, <2>4, Zenon DEF TypeOK
  <2> QED BY <2>1, <2>3, <2>5
<1>2. CASE ~There(v)
  <2>1. m = vm
    BY <1>2 DEF Destroyed
  <2>2. v \in VMs => vm[v].st \in {"unused", "gone"}
    BY <1>0, <1>2 DEF There, Machines
  <2> QED BY <1>0, <2>1, <2>2
<1> QED BY <1>1, <1>2

\* The reads of cancel and delete: a template at rest.
LEMMA ReadKeeps ==
  ASSUME IInv, NEW a \in Admins, CancelRead(a) \/ DeleteRead(a)
  PROVE  IInv'
<1>0. TypeOK /\ row \in Rows /\ races \subseteq Races
  BY DEF IInv, TypeOK
<1>1. req[a].op = "idle" /\ row.st \notin Transient /\ UNCHANGED <<row, vm, job, sweep, races>>
  BY DEF CancelRead, DeleteRead, Transient
<1>2. row.vm \in VMs \cup {NoVM} /\ row.cycle \in Nat /\ row.st \in States \cup {"none", "deleted"}
  BY <1>0 DEF Rows
<1>3. PICK q \in Requests :
        /\ req' = [req EXCEPT ![a] = q]
        /\ q.op \in {"cancel", "cancel_vm", "delete_vm"} /\ q.vm = row.vm /\ q.cycle = row.cycle
        /\ q.op = "cancel" => row.vm = NoVM
  <2>1. CASE CancelRead(a)
    <3>1. PICK q : q = [op |-> IF row.vm = NoVM THEN "cancel" ELSE "cancel_vm",
                        from |-> row.st, to |-> "draft", vm |-> row.vm, cycle |-> row.cycle]
      OBVIOUS
    <3>2. row.st \in States
      BY <2>1 DEF CancelRead, States
    <3>3. /\ q \in Requests /\ q.op \in {"cancel", "cancel_vm"} /\ q.vm = row.vm /\ q.cycle = row.cycle
          /\ q.op = "cancel" => row.vm = NoVM
      BY <1>2, <3>1, <3>2 DEF Requests, States
    <3>4. req' = [req EXCEPT ![a] = q]
      BY <2>1, <3>1 DEF CancelRead, Open
    <3> QED BY <3>3, <3>4
  <2>2. CASE DeleteRead(a)
    <3>1. PICK q : q = [NoReq EXCEPT !.op = "delete_vm", !.vm = row.vm, !.cycle = row.cycle]
      OBVIOUS
    <3>2. q \in Requests /\ q.op = "delete_vm" /\ q.vm = row.vm /\ q.cycle = row.cycle
      BY <1>2, <3>1 DEF Requests, NoReq
    <3>3. req' = [req EXCEPT ![a] = q]
      BY <2>2, <3>1 DEF DeleteRead, Open
    <3> QED BY <3>2, <3>3
  <2> QED BY <2>1, <2>2
<1>4. ~Enqueues(req[a]) /\ req[a].op \notin {"cancel_clear", "delete"} /\ ~Enqueues(q) /\ q.cycle <= row.cycle
  BY <1>1, <1>2, <1>3 DEF Enqueues
<1>5. Orderly => Known(q.vm) /\ ReqFits(q)
  BY <1>1, <1>3, <1>4 DEF Orderly, AllKnown, ReqFits
<1> QED BY <1>0, <1>1, <1>3, <1>4, <1>5, Reads

\* Cancel and delete destroy the VM they have read, or give up.
LEMMA DestroyKeeps ==
  ASSUME IInv, NEW a \in Admins, CancelDestroy(a) \/ DeleteDestroy(a)
  PROVE  IInv'
<1>0. TypeOK /\ row \in Rows /\ races \subseteq Races
  BY DEF IInv, TypeOK
<1>1. req[a].op \in {"cancel_vm", "delete_vm"} /\ UNCHANGED <<row, job, sweep>>
  BY DEF CancelDestroy, DeleteDestroy
<1>2. CASE Close(a) /\ UNCHANGED <<vm, races>>
  <2>1. PICK q : q = NoReq
    OBVIOUS
  <2>2. req' = [req EXCEPT ![a] = q]
    BY <1>2, <2>1 DEF Close, Open
  <2>3. q \in Requests /\ ~Enqueues(q) /\ q.op = "idle" /\ q.vm = NoVM /\ q.cycle = 0
    BY <2>1, Blank DEF Enqueues
  <2>4. q.cycle <= row.cycle /\ Known(q.vm) /\ ReqFits(q)
    BY <1>0, <2>3 DEF Known, ReqFits, Rows
  <2>5. ~Enqueues(req[a]) /\ req[a].op \notin {"cancel_clear", "delete"}
    BY <1>1 DEF Enqueues
  <2> QED BY <1>0, <1>1, <1>2, <2>2, <2>3, <2>4, <2>5, Reads
<1>3. ASSUME NEW p \in {"cancel_clear", "delete"}, vm' = Destroyed(req[a].vm),
             Open(a, [req[a] EXCEPT !.op = p]), Overtaken(a)
      PROVE  IInv'
  <2>1. PICK q : q = [req[a] EXCEPT !.op = p]
    OBVIOUS
  <2>2. q \in Requests /\ q.op = p /\ q.vm = req[a].vm /\ q.cycle = req[a].cycle
    BY <1>0, <2>1, OneOfEach DEF Requests
  <2>3. req' = [req EXCEPT ![a] = q]
    BY <1>3, <2>1 DEF Open
  <2>4. PICK v : v = req[a].vm
    OBVIOUS
  <2>5. PICK m : m = Destroyed(v)
    OBVIOUS
  <2>6. vm' = m
    BY <1>3, <2>4, <2>5
  <2>7. /\ m \in [VMs -> Machines]
        /\ \A w \in VMs : /\ m[w].on = vm[w].on /\ m[w].gen = vm[w].gen
                          /\ m[w].snap = vm[w].snap /\ m[w].proven = vm[w].proven
                          /\ vm[w].st # "unused" => m[w].st # "unused"
                          /\ vm[w].st = "gone" => m[w].st = "gone"
                          /\ w # v => m[w].st = vm[w].st
        /\ v \in VMs /\ vm[v].st # "unused" => m[v].st = "gone"
    BY <1>0, <2>5, DestroyedShapes
  <2>8. /\ races \subseteq races' /\ races' \subseteq Races
        /\ races' = {} => req[a].cycle = row.cycle
    BY <1>0, <1>3, OvertakenShapes
  <2>9. PICK r : r = row
    OBVIOUS
  <2>10. r \in Rows /\ row' = r
    BY <1>0, <1>1, <2>9
  <2>11. ASSUME races' = {}, Orderly
         PROVE  /\ ~Enqueues(q) /\ q.cycle <= row.cycle /\ HandlerMoves(req[a], r, m)
                /\ Known(q.vm)' /\ ReqFits(q)' /\ RowOrderly'
    <3>1. row.st \notin Transient /\ (row.vm = NoVM \/ row.vm = v)
      BY <1>1, <2>4, <2>8, <2>11 DEF Orderly, ReqFits
    <3>2. ~Enqueues(q) /\ q.cycle <= row.cycle
      BY <1>0, <2>2, <2>8, <2>11 DEF Enqueues, Rows
    <3>3. Known(v) /\ v \in VMs \cup {NoVM}
      BY <1>0, <2>4, <2>11, OneOfEach DEF Orderly, AllKnown, Requests
    <3>4. v # NoVM => m[v].st = "gone"
      BY <2>7, <3>3 DEF Known
    <3>5. Known(q.vm)'
      BY <2>2, <2>4, <2>6, <3>4 DEF Known
    <3>6. HandlerMoves(req[a], r, m)
      BY <2>7, <2>9, <3>1 DEF HandlerMoves
    <3>7. ReqFits(q)'
      BY <2>2, <2>4, <2>6, <2>9, <2>10, <3>1, <3>2, <3>4 DEF ReqFits, Enqueues
    <3>8. Forgetting(v)'
      <4>1. req'[a] = q
        BY <1>0, <2>3 DEF TypeOK
      <4> QED BY <2>2, <2>4, <4>1 DEF Forgetting
    <3>9. RowOrderly /\ row.vm \in VMs \cup {NoVM}
      BY <1>0, <2>11 DEF Orderly, Rows
    <3>10. RowOrderly'
      <4>1. CASE row.vm = NoVM
        BY <2>9, <2>10, <4>1 DEF RowOrderly
      <4>2. CASE row.vm # NoVM
        <5>1. row.vm = v /\ v \in VMs /\ row'.vm = v /\ row'.st = row.st /\ row'.src = row.src
          BY <2>9, <2>10, <3>1, <3>9, <4>2
        <5>2. vm'[v].on = vm[v].on /\ vm'[v].gen = vm[v].gen /\ vm'[v].proven = vm[v].proven
          BY <2>6, <2>7, <5>1
        <5> QED BY <3>8, <3>9, <4>2, <5>1, <5>2 DEF RowOrderly, Forgetting
      <4> QED BY <4>1, <4>2
    <3> QED BY <3>2, <3>5, <3>6, <3>7, <3>10
  <2> QED BY <1>1, <2>2, <2>3, <2>6, <2>7, <2>8, <2>10, <2>11, HandlerStep
<1> QED BY <1>2, <1>3 DEF CancelDestroy, DeleteDestroy

\* The cancellation forgets the VM it has destroyed.
LEMMA ClearKeeps ==
  ASSUME IInv, NEW a \in Admins, CancelClear(a)
  PROVE  IInv'
<1>0. TypeOK /\ row \in Rows /\ vm \in [VMs -> Machines] /\ races \subseteq Races
  BY DEF IInv, TypeOK
<1>1. /\ req[a].op = "cancel_clear" /\ SetTemplateVCenterVM(NoVM) /\ Overtaken(a)
      /\ Open(a, [req[a] EXCEPT !.op = "cancel"]) /\ UNCHANGED <<vm, job, sweep>>
  BY DEF CancelClear
<1>2. PICK q : q = [req[a] EXCEPT !.op = "cancel"]
  OBVIOUS
<1>3. q \in Requests /\ q.op = "cancel" /\ q.vm = req[a].vm /\ q.cycle = req[a].cycle
  BY <1>0, <1>2, OneOfEach DEF Requests
<1>4. req' = [req EXCEPT ![a] = q]
  BY <1>1, <1>2 DEF Open
<1>5. PICK r \in Rows : row' = r /\ r.st = row.st /\ r.cycle = row.cycle /\ (Exists => r.vm = NoVM) /\ (~Exists => r = row)
  <2>1. CASE Exists
    <3>1. PICK r : r = [[row EXCEPT !.vm = NoVM] EXCEPT !.old = FALSE]
      OBVIOUS
    <3>2. r \in Rows /\ r.st = row.st /\ r.cycle = row.cycle /\ r.vm = NoVM
      BY <1>0, <3>1 DEF Rows
    <3>3. row' = r
      BY <1>1, <2>1, <3>1 DEF SetTemplateVCenterVM, SetRow
    <3> QED BY <2>1, <3>2, <3>3
  <2>2. CASE ~Exists
    BY <1>0, <1>1, <2>2 DEF SetTemplateVCenterVM
  <2> QED BY <2>1, <2>2
<1>6. /\ races \subseteq races' /\ races' \subseteq Races
      /\ races' = {} => req[a].cycle = row.cycle
  BY <1>0, <1>1, OvertakenShapes
<1>7. ASSUME races' = {}, Orderly
      PROVE  /\ ~Enqueues(q) /\ q.cycle <= row.cycle /\ HandlerMoves(req[a], r, vm)
             /\ Known(q.vm)' /\ ReqFits(q)' /\ RowOrderly'
  <2>1. row.st \notin Transient /\ (row.vm = NoVM \/ vm[row.vm].st = "gone")
    BY <1>1, <1>6, <1>7 DEF Orderly, ReqFits
  <2>2. r.vm = NoVM
    BY <1>0, <1>5, <1>7 DEF Orderly, RowOrderly, Exists, Rows
  <2>3. ~Enqueues(q) /\ q.cycle <= row.cycle
    BY <1>0, <1>3, <1>6, <1>7 DEF Enqueues, Rows
  <2>4. Known(q.vm)'
    BY <1>1, <1>3, <1>7 DEF Orderly, AllKnown, Known
  <2>5. HandlerMoves(req[a], r, vm)
    BY <1>5, <2>1, <2>2 DEF HandlerMoves
  <2>6. ReqFits(q)'
    BY <1>3, <1>5, <2>1, <2>2 DEF ReqFits, Enqueues
  <2>7. RowOrderly'
    BY <1>5, <2>2 DEF RowOrderly
  <2> QED BY <2>3, <2>4, <2>5, <2>6, <2>7
<1>8. PICK m : m = vm
  OBVIOUS
<1> QED BY <1>0, <1>1, <1>3, <1>4, <1>5, <1>6, <1>7, <1>8, HandlerStep

\* AdminCancelTemplate: the compare-and-set to draft.
LEMMA CancelKeeps ==
  ASSUME IInv, NEW a \in Admins, AdminCancelTemplate(a)
  PROVE  IInv'
<1>0. TypeOK /\ row \in Rows
  BY DEF IInv, TypeOK
<1>1. /\ req[a].op = "cancel" /\ Close(a) /\ Overtaken(a) /\ UNCHANGED <<vm, job, sweep>>
      /\ UpdateTemplateLifecycleState(req[a].from, "draft")
  BY DEF AdminCancelTemplate
<1>2. PICK r \in Rows : row' = r /\ r.vm = row.vm /\ r.cycle = row.cycle /\ (r.st = "draft" \/ r = row)
  <2>1. CASE row.st = req[a].from
    <3>1. PICK r : r = [[row EXCEPT !.st = "draft"] EXCEPT !.old = FALSE]
      OBVIOUS
    <3>2. r \in Rows /\ r.st = "draft" /\ r.vm = row.vm /\ r.cycle = row.cycle
      BY <1>0, <3>1, RowShapes DEF States
    <3>3. row' = r
      BY <1>1, <2>1, <3>1 DEF UpdateTemplateLifecycleState, SetRow
    <3> QED BY <3>2, <3>3
  <2>2. CASE row.st # req[a].from
    BY <1>0, <1>1, <2>2 DEF UpdateTemplateLifecycleState
  <2> QED BY <2>1, <2>2
<1>3. /\ races \subseteq races' /\ races' \subseteq Races
      /\ races' = {} => req[a].cycle = row.cycle
  BY <1>0, <1>1, OvertakenShapes
<1>4. ASSUME races' = {}, Orderly PROVE HandlerMoves(req[a], r, vm) /\ RowOrderly'
  <2>1. row.st \notin Transient /\ row.vm = NoVM
    BY <1>1, <1>3, <1>4 DEF Orderly, ReqFits
  <2>2. HandlerMoves(req[a], r, vm)
    BY <1>2, <2>1 DEF HandlerMoves, Transient
  <2>3. RowOrderly'
    BY <1>2, <2>1 DEF RowOrderly
  <2> QED BY <2>2, <2>3
<1> QED BY <1>1, <1>2, <1>3, <1>4, Closes

\* DeleteTemplateWithHistory.
LEMMA DeleteKeeps ==
  ASSUME IInv, NEW a \in Admins, AdminDeleteTemplate(a)
  PROVE  IInv'
<1>0. TypeOK /\ row \in Rows
  BY DEF IInv, TypeOK
<1>1. req[a].op = "delete" /\ Close(a) /\ Overtaken(a) /\ UNCHANGED <<vm, job, sweep>>
  BY DEF AdminDeleteTemplate
<1>2. PICK r : r = [row EXCEPT !.st = "deleted", !.vm = NoVM, !.act = FALSE]
  OBVIOUS
<1>3. r \in Rows /\ row' = r /\ r.vm = NoVM /\ r.cycle = row.cycle /\ r.st = "deleted"
  BY <1>0, <1>2 DEF Rows, AdminDeleteTemplate
<1>4. /\ races \subseteq races' /\ races' \subseteq Races
      /\ races' = {} => req[a].cycle = row.cycle
  BY <1>0, <1>1, OvertakenShapes
<1>5. ASSUME races' = {}, Orderly PROVE HandlerMoves(req[a], r, vm) /\ RowOrderly'
  <2>1. row.st \notin Transient /\ (row.vm = NoVM \/ vm[row.vm].st = "gone")
    BY <1>1, <1>4, <1>5 DEF Orderly, ReqFits
  <2>2. HandlerMoves(req[a], r, vm)
    BY <1>3, <2>1 DEF HandlerMoves, Transient
  <2>3. RowOrderly'
    BY <1>3 DEF RowOrderly
  <2> QED BY <2>2, <2>3
<1> QED BY <1>1, <1>3, <1>4, <1>5, Closes

\* AdminTemplatePowerAction: a generalized VM may be stopped.
LEMMA PowerKeeps ==
  ASSUME IInv, NEW a \in Admins, AdminTemplatePowerAction(a)
  PROVE  IInv'
<1>0. TypeOK /\ row \in Rows /\ vm \in [VMs -> Machines] /\ races \subseteq Races
  BY DEF IInv, TypeOK
<1>1. req[a].op = "idle" /\ There(row.vm) /\ UNCHANGED <<row, job, req, sweep>>
  BY DEF AdminTemplatePowerAction
<1>2. PICK on \in BOOLEAN : /\ vm' = [vm EXCEPT ![row.vm].on = on]
                            /\ races' = IF on \/ vm[row.vm].gen THEN races ELSE races \cup {"stopped"}
  BY DEF AdminTemplatePowerAction
<1>3. PICK v : v = row.vm
  OBVIOUS
<1>4. v \in VMs /\ vm[v].st = "there"
  BY <1>1, <1>3 DEF There
<1>5. PICK o : o = [vm[v] EXCEPT !.on = on]
  OBVIOUS
<1>6. /\ o \in Machines /\ o.st = "there" /\ o.gen = vm[v].gen /\ o.on = on
      /\ o.snap = vm[v].snap /\ o.proven = vm[v].proven
  BY <1>0, <1>4, <1>5, OneOfEach DEF Machines
<1>7. PICK m : m = [vm EXCEPT ![v] = o]
  OBVIOUS
<1>8. m \in [VMs -> Machines] /\ m[v] = o /\ \A w \in VMs \ {v} : m[w] = vm[w]
  BY <1>0, <1>4, <1>6, <1>7, Zenon DEF TypeOK
<1>9. vm' = m
  BY <1>2, <1>3, <1>5, <1>7
<1>10. races \subseteq races' /\ races' \subseteq Races /\ (races' = {} => on \/ vm[v].gen)
  BY <1>0, <1>2, <1>3 DEF Races
<1>11. PICK q : q = req[a]
  OBVIOUS
<1>12. q \in Requests /\ q.op = "idle" /\ req' = [req EXCEPT ![a] = q]
  BY <1>0, <1>1, <1>11, OneOfEach DEF TypeOK
<1>13. PICK r : r = row
  OBVIOUS
<1>14. ASSUME races' = {}, Orderly
       PROVE  /\ ~Enqueues(q) /\ q.cycle <= row.cycle /\ HandlerMoves(req[a], r, m)
              /\ Known(q.vm)' /\ ReqFits(q)' /\ RowOrderly'
  <2>1. ~Enqueues(q) /\ ReqFits(q)'
    BY <1>12 DEF Enqueues, ReqFits
  <2>2. \A w \in VMs : vm[w].st = m[w].st
    BY <1>4, <1>6, <1>8
  <2>3. Known(q.vm) /\ q.vm \in VMs \cup {NoVM} /\ q.cycle <= row.cycle
    BY <1>0, <1>11, <1>14, OneOfEach DEF Orderly, OneWorker, AllKnown, Requests
  <2>4. Known(q.vm)'
    BY <1>9, <2>2, <2>3 DEF Known
  <2>5. Grown(m) /\ \A w \in VMs : /\ vm[w].on \/ vm[w].gen => m[w].on \/ m[w].gen
                                   /\ vm[w].proven => m[w].proven
    BY <1>4, <1>6, <1>8, <1>10, <1>14 DEF Grown
  <2>6. HandlerMoves(req[a], r, m)
    <3>1. /\ r.cycle = row.cycle /\ r.st = row.st /\ r.vm = row.vm /\ r.src = row.src
          /\ ~Enqueues(req[a])
      BY <1>11, <1>13, <2>1 DEF Enqueues
    <3> QED BY <2>5, <3>1 DEF HandlerMoves
  <2>7. RowOrderly'
    BY <1>0, <1>1, <1>9, <1>12, <1>13, <1>14, <2>5, RowKept
  <2> QED BY <2>1, <2>3, <2>4, <2>6, <2>7
<1> QED BY <1>0, <1>1, <1>8, <1>9, <1>10, <1>12, <1>13, <1>14, HandlerStep

\* An API process that dies with a request that has nothing left to forget or to enqueue.
LEMMA ApiCrashKeeps ==
  ASSUME IInv, NEW a \in Admins, ApiCrash(a)
  PROVE  IInv'
<1>0. TypeOK /\ row \in Rows /\ races \subseteq Races
  BY DEF IInv, TypeOK
<1>1. Close(a) /\ UNCHANGED <<row, vm, job, sweep>>
  BY DEF ApiCrash
<1>2. PICK q : q = NoReq
  OBVIOUS
<1>3. req' = [req EXCEPT ![a] = q]
  BY <1>1, <1>2 DEF Close, Open
<1>4. q \in Requests /\ ~Enqueues(q) /\ q.op = "idle" /\ q.vm = NoVM /\ q.cycle = 0
  BY <1>2, Blank DEF Enqueues
<1>5. q.cycle <= row.cycle /\ Known(q.vm) /\ ReqFits(q)
  BY <1>0, <1>4 DEF Known, ReqFits, Rows
<1>6. /\ races \subseteq races' /\ races' \subseteq Races
      /\ races' = {} => ~Enqueues(req[a]) /\ req[a].op \notin {"cancel_clear", "delete"}
  BY <1>0 DEF ApiCrash, Enqueues, Races
<1> QED BY <1>1, <1>3, <1>4, <1>5, <1>6, Reads

\* The compare-and-set that starts a cycle.
LEMMA CycleKeeps ==
  ASSUME IInv, NEW a \in Admins,
         AdminProvisionTemplate(a) \/ AdminGeneralizeTemplate(a) \/ AdminPublishTemplate(a)
  PROVE  IInv'
<1>0. TypeOK /\ ClonesHeld /\ row \in Rows /\ (races = {} => Orderly)
  BY DEF IInv, TypeOK
<1>1. PICK f, t :
        /\ \/ f = "draft" /\ t = "provisioning"
           \/ f = "configuring" /\ t = "generalizing" /\ row.vm # NoVM
           \/ f = "ready" /\ t = "verifying" /\ row.vm # NoVM
        /\ Advance(a, f, t)
  BY DEF AdminProvisionTemplate, AdminGeneralizeTemplate, AdminPublishTemplate
<1>2. f \in States /\ f \notin Transient /\ t \in States /\ t \in Transient
  BY <1>1 DEF States, Transient
<1>3. req[a].op = "idle" /\ row.st = f /\ UNCHANGED <<vm, job, sweep, races>>
  BY <1>1 DEF Advance
<1>4. PICK c : c = row.cycle + 1
  OBVIOUS
<1>5. c \in Nat /\ row.cycle \in Nat /\ c > row.cycle /\ row.vm \in VMs \cup {NoVM}
  BY <1>0, <1>4 DEF Rows
<1>6. PICK r : r = [[row EXCEPT !.st = t, !.cycle = c] EXCEPT !.old = FALSE]
  OBVIOUS
<1>7. r \in Rows /\ r.st = t /\ r.vm = row.vm /\ r.cycle = c /\ r.src = row.src
  BY <1>0, <1>2, <1>5, <1>6 DEF Rows
<1>8. row' = r
  BY <1>1, <1>4, <1>6 DEF Advance, SetRow
<1>9. PICK q : q = [op |-> "enqueue", from |-> f, to |-> t, vm |-> row.vm, cycle |-> c]
  OBVIOUS
<1>10. /\ q \in Requests /\ q.op = "enqueue" /\ q.from = f /\ q.to = t /\ q.vm = row.vm /\ q.cycle = c
  BY <1>2, <1>5, <1>9 DEF Requests
<1>11. req' = [req EXCEPT ![a] = q]
  BY <1>1, <1>4, <1>9 DEF Advance, Open
<1>12. req'[a] = q /\ \A b \in Admins \ {a} : req'[b] = req[b]
  BY <1>0, <1>11 DEF TypeOK
<1>13. TypeOK'
  BY <1>0, <1>3, <1>7, <1>8, <1>10, <1>11 DEF TypeOK
<1>14. ClonesHeld'
  BY <1>0, <1>3 DEF ClonesHeld, CloneHeld
<1>15. ASSUME Orderly PROVE Orderly'
  <2>1. \A b \in Admins : ~Enqueues(req[b])
    BY <1>2, <1>3, <1>15 DEF Orderly, ReqFits
  <2>2. \A k \in Jobs : ~Busy(job[k])
    <3>1. \A k \in Jobs : StateOf(job[k]) \in Transient
      BY DEF StateOf, Transient
    <3> QED BY <1>2, <1>3, <1>15, <3>1 DEF Orderly, JobFits
  <2>3. \A k \in Jobs : job[k].cycle \in Nat /\ (Wizard(job[k]) => job[k].cycle <= row.cycle)
    BY <1>0, <1>15, OneOfEach DEF Orderly, OneWorker, JobRows
  <2>4. \A b \in Admins : req[b].cycle \in Nat /\ req[b].cycle <= row.cycle
    BY <1>0, <1>15, OneOfEach DEF Orderly, OneWorker, Requests
  <2>5. \A k \in Jobs : ~Current(job[k])' /\ ~Busy(job[k])' /\ (Wizard(job[k]) => job[k].cycle <= c)
    BY <1>3, <1>5, <1>7, <1>8, <2>2, <2>3 DEF Current, Wizard, Busy
  <2>6. \A b \in Admins \ {a} : ~Enqueues(req[b])' /\ req[b].cycle < c /\ req'[b] = req[b]
    BY <1>5, <1>12, <2>1, <2>4 DEF Enqueues
  <2>7. OneWorker'
    <3>1. (\A j \in Jobs : Wizard(job[j]) => job[j].cycle <= row.cycle)'
      BY <1>3, <1>7, <1>8, <2>5 DEF Wizard
    <3>2. (\A b \in Admins : req[b].cycle <= row.cycle)'
      BY <1>5, <1>7, <1>8, <1>10, <1>12, <2>4, <2>6
    <3>3. (\A b, d \in Admins : Enqueues(req[b]) /\ Enqueues(req[d]) => b = d)'
      BY <2>6 DEF Enqueues
    <3> QED BY <2>5, <3>1, <3>2, <3>3 DEF OneWorker, Current, Wizard
  <2>8. AllKnown'
    BY <1>3, <1>7, <1>8, <1>10, <1>12, <1>15 DEF Orderly, AllKnown, Known
  <2>9. Served'
    BY <1>10, <1>12 DEF Served, Enqueues
  <2>10. RowOrderly /\ row'.st = t /\ row'.vm = row.vm /\ row'.src = row.src /\ vm' = vm
    BY <1>3, <1>7, <1>8, <1>15 DEF Orderly
  <2>11. PICK w : w = row.vm
    OBVIOUS
  <2>12. Forgetting(w) => Forgetting(w)'
    BY <1>0, <1>3, <1>11, ForgetKept
  <2>13. RowOrderly'
    BY <1>1, <1>3, <2>10, <2>11, <2>12 DEF RowOrderly, There, Forgetting
  <2>14. SweepOrderly'
    BY <1>1, <1>3, <1>15, <2>10 DEF Orderly, SweepOrderly
  <2>15. ReqFits(q)'
    <3>1. t = "provisioning" => row.vm = NoVM
      BY <1>1, <1>3, <2>10 DEF RowOrderly
    <3>2. Enqueues(q)' /\ q.op = "enqueue"
      BY <1>10 DEF Enqueues
    <3> QED BY <1>1, <1>2, <1>7, <1>8, <1>10, <2>10, <3>1, <3>2 DEF ReqFits
  <2>16. \A b \in Admins : ReqFits(req[b])'
    <3>1. ASSUME NEW b \in Admins \ {a} PROVE ReqFits(req[b])'
      <4>1. row'.cycle = c /\ req'[b].cycle # c /\ ~Enqueues(req[b])'
        BY <1>5, <1>7, <1>8, <2>4, <2>6
      <4> QED BY <4>1 DEF ReqFits
    <3> QED BY <1>12, <2>15, <3>1 DEF ReqFits, Enqueues
  <2>17. \A k \in Jobs : JobFits(job[k])'
    BY <2>5 DEF JobFits
  <2> QED BY <2>7, <2>8, <2>9, <2>13, <2>14, <2>16, <2>17 DEF Orderly
<1> QED BY <1>0, <1>3, <1>13, <1>14, <1>15 DEF IInv

\* CreateJob: the cycle gets its one job.
LEMMA EnqueueKeeps ==
  ASSUME IInv, NEW a \in Admins, NEW j \in Jobs, EnqueueJob(a, j)
  PROVE  IInv'
<1>0. TypeOK /\ ClonesHeld /\ row \in Rows /\ (races = {} => Orderly)
  BY DEF IInv, TypeOK
<1>1. req[a].op = "enqueue" /\ Close(a) /\ Overtaken(a) /\ UNCHANGED <<row, vm, sweep>>
  BY DEF EnqueueJob
<1>2. PICK t : t = JobFor(req[a].to)
  OBVIOUS
<1>3. req[a].to \in Transient /\ req[a].vm \in VMs \cup {NoVM} /\ req[a].cycle \in Nat
  BY <1>0, <1>1, OneOfEach DEF Requests
<1>4. /\ t \in {"provision", "generalize", "verify"}
      /\ t = "provision" => req[a].to = "provisioning"
      /\ t = "generalize" => req[a].to = "generalizing"
      /\ t = "verify" => req[a].to = "verifying"
  BY <1>2, <1>3 DEF JobFor, Transient
<1>5. PICK n : n = [NoJob EXCEPT !.type = t, !.st = "pending", !.vm = req[a].vm, !.cycle = req[a].cycle]
  OBVIOUS
<1>6. /\ n \in JobRows /\ n.type = t /\ n.st = "pending" /\ n.vm = req[a].vm /\ n.cycle = req[a].cycle
      /\ ~n.clone /\ n.pc = "start"
  <2>1. PICK o : o = NoJob
    OBVIOUS
  <2>2. o \in JobRows /\ ~o.clone /\ o.pc = "start"
    BY <2>1, Blank
  <2>3. n = [o EXCEPT !.type = t, !.st = "pending", !.vm = req[a].vm, !.cycle = req[a].cycle]
    BY <1>5, <2>1
  <2>4. /\ n \in JobRows /\ n.type = t /\ n.st = "pending" /\ n.vm = req[a].vm /\ n.cycle = req[a].cycle
        /\ n.clone = o.clone /\ n.pc = o.pc
    BY <1>3, <1>4, <2>2, <2>3 DEF JobRows, JobTypes
  <2> QED BY <2>2, <2>4
<1>7. job' = [job EXCEPT ![j] = n]
  BY <1>2, <1>5 DEF EnqueueJob, Insert
<1>8. PICK q : q = NoReq
  OBVIOUS
<1>9. q \in Requests /\ ~Enqueues(q) /\ q.op = "idle" /\ q.vm = NoVM /\ q.cycle = 0
  BY <1>8, Blank DEF Enqueues
<1>10. req' = [req EXCEPT ![a] = q]
  BY <1>1, <1>8 DEF Close, Open
<1>11. /\ req'[a] = q /\ \A b \in Admins \ {a} : req'[b] = req[b]
       /\ job'[j] = n /\ \A k \in Jobs \ {j} : job'[k] = job[k]
  BY <1>0, <1>7, <1>10 DEF TypeOK
<1>12. races \subseteq races' /\ races' \subseteq Races /\ (races' = {} => req[a].cycle = row.cycle)
  BY <1>0, <1>1, OvertakenShapes
<1>13. TypeOK'
  BY <1>0, <1>1, <1>6, <1>7, <1>9, <1>10, <1>12 DEF TypeOK
<1>14. ClonesHeld'
  <2>1. ASSUME NEW k \in Jobs PROVE CloneHeld(job[k])'
    <3>1. CASE k = j
      BY <1>6, <1>11, <3>1 DEF CloneHeld
    <3>2. CASE k # j
      BY <1>0, <1>11, <3>2 DEF ClonesHeld, CloneHeld
    <3> QED BY <3>1, <3>2
  <2> QED BY <2>1 DEF ClonesHeld
<1>15. ASSUME races' = {}, Orderly PROVE Orderly'
  <2>1. Enqueues(req[a]) /\ ReqFits(req[a]) /\ req[a].cycle = row.cycle
    BY <1>1, <1>12, <1>15 DEF Enqueues, Orderly
  <2>2. (\A k \in Jobs : ~Current(job[k]) /\ ~Busy(job[k])) /\ \A b \in Admins \ {a} : ~Enqueues(req[b])
    BY <1>15, <2>1 DEF Orderly, OneWorker, JobFits
  <2>3. row.st = req[a].to /\ row.st \in Transient /\ row' = row /\ row.cycle \in Nat
    BY <1>0, <1>1, <2>1 DEF ReqFits, Rows
  <2>4. \A k \in Jobs \ {j} : ~Current(job[k])' /\ ~Busy(job[k])'
    BY <1>11, <2>2, <2>3 DEF Current, Busy, Wizard
  <2>5. \A b \in Admins : ~Enqueues(req[b])'
    BY <1>9, <1>11, <2>2 DEF Enqueues
  <2>6. Current(n) /\ Current(n)' /\ Wizard(n)
    BY <1>4, <1>6, <2>1, <2>3 DEF Current, Wizard
  <2>7. OneWorker'
    <3>1. (\A k \in Jobs : Wizard(job[k]) => job[k].cycle <= row.cycle)'
      BY <1>6, <1>11, <1>15, <2>1, <2>3 DEF Orderly, OneWorker, Wizard
    <3>2. (\A b \in Admins : req[b].cycle <= row.cycle)'
      BY <1>9, <1>11, <1>15, <2>3 DEF Orderly, OneWorker
    <3>3. (\A k, l \in Jobs : Current(job[k]) /\ Current(job[l]) => k = l)'
      BY <2>4 DEF Current, Wizard
    <3> QED BY <2>5, <3>1, <3>2, <3>3 DEF OneWorker
  <2>8. AllKnown'
    BY <1>1, <1>6, <1>9, <1>11, <1>15 DEF Orderly, AllKnown, Known
  <2>9. Served'
    BY <1>11, <2>6 DEF Served, Current, Wizard
  <2>10. PICK w : w = row.vm
    OBVIOUS
  <2>11. Forgetting(w) => Forgetting(w)'
    BY <1>0, <1>1, <1>10, ForgetKept
  <2>12. RowOrderly'
    BY <1>1, <1>15, <2>10, <2>11 DEF Orderly, RowOrderly, There, Forgetting
  <2>13. SweepOrderly'
    BY <1>1, <1>15 DEF Orderly, SweepOrderly
  <2>14. \A b \in Admins : ReqFits(req[b])'
    <3>1. ASSUME NEW b \in Admins \ {a} PROVE ReqFits(req[b])'
      BY <1>1, <1>11, <1>15, <3>1 DEF Orderly, ReqFits, Enqueues
    <3> QED BY <1>9, <1>11, <3>1 DEF ReqFits, Enqueues
  <2>15. JobFits(n)'
    <3>1. t # "provision" => n.vm = row.vm /\ row.vm # NoVM
      BY <1>4, <1>6, <2>1 DEF ReqFits
    <3>2. row.st = StateOf(n)
      BY <1>4, <1>6, <2>3 DEF StateOf
    <3>3. ~Busy(n)'
      BY <1>6 DEF Busy
    <3> QED BY <1>6, <2>3, <2>6, <3>1, <3>2, <3>3 DEF JobFits, StateOf
  <2>16. \A k \in Jobs : JobFits(job[k])'
    <3>1. ASSUME NEW k \in Jobs \ {j} PROVE JobFits(job[k])'
      BY <2>4 DEF JobFits
    <3> QED BY <1>11, <2>15, <3>1 DEF JobFits, Busy, Current, Wizard, StateOf
  <2> QED BY <2>7, <2>8, <2>9, <2>12, <2>13, <2>14, <2>16 DEF Orderly
<1>16. races' = {} => Orderly'
  BY <1>0, <1>12, <1>15
<1> QED BY <1>13, <1>14, <1>16 DEF IInv

\* The row and the VMs after a step of the reconciler: the VM of a row that is not
\* abandoned stays, and only an abandoned row is deleted.
ReconcileMoves(r, m, s) ==
    /\ r.cycle = row.cycle /\ r.src = row.src
    /\ \/ r.st = row.st /\ r.vm = row.vm
       \/ row.st \in {"draft", "error"} /\ r.st = "deleted" /\ r.vm = NoVM
    /\ \A v \in VMs :
          /\ m[v].on = vm[v].on /\ m[v].gen = vm[v].gen /\ m[v].snap = vm[v].snap /\ m[v].proven = vm[v].proven
          /\ vm[v].st # "unused" => m[v].st # "unused"
          /\ vm[v].st = "gone" => m[v].st = "gone"
          /\ v = row.vm /\ row.st # "error" => m[v].st = vm[v].st
    /\ s.pc = "destroy" => s = sweep \/ row.st = "error"

\* The jobs and requests still fit.
LEMMA ReconcileKeeps ==
  ASSUME TypeOK, Orderly, NEW r \in Rows, NEW m \in [VMs -> Machines], NEW s \in Sweeps,
         row' = r, vm' = m, sweep' = s, UNCHANGED <<job, req>>,
         ReconcileMoves(r, m, s), Known(s.vm), SweepOrderly'
  PROVE  Orderly'
<1>1. r.cycle = row.cycle /\ r.src = row.src
  BY DEF ReconcileMoves
<1>2. OneWorker'
  BY <1>1 DEF Orderly, OneWorker, Current, Enqueues, Wizard
<1>3. /\ row.vm \in VMs \cup {NoVM} /\ s.vm \in VMs \cup {NoVM}
      /\ \A k \in Jobs : job[k].vm \in VMs \cup {NoVM}
      /\ \A b \in Admins : req[b].vm \in VMs \cup {NoVM}
  BY OneOfEach DEF Rows, Sweeps, JobRows, Requests
<1>4. ASSUME NEW v, v \in VMs \cup {NoVM}, Known(v) PROVE Known(v)'
  BY <1>4 DEF Known, ReconcileMoves
<1>5. AllKnown'
  <2>1. Known(row.vm) /\ (\A k \in Jobs : Known(job[k].vm)) /\ \A b \in Admins : Known(req[b].vm)
    BY DEF Orderly, AllKnown
  <2>2. \A k \in Jobs : Known(job[k].vm)'
    BY <1>3, <1>4, <2>1 DEF Known
  <2>3. Known(row.vm)'
    BY <1>3, <1>4, <2>1 DEF ReconcileMoves, Known
  <2>4. Known(sweep.vm)' /\ \A b \in Admins : Known(req[b].vm)'
    BY <1>3, <1>4, <2>1 DEF Known
  <2> QED BY <2>2, <2>3, <2>4 DEF AllKnown
<1>6. \A k \in Jobs : StateOf(job[k]) \in Transient
  BY DEF StateOf, Transient
<1>7. CASE r.st = row.st /\ r.vm = row.vm
  <2>1. Served'
    BY <1>1, <1>7 DEF Orderly, Served, Current, Enqueues, Wizard
  <2>2. ASSUME NEW b \in Admins PROVE ReqFits(req[b])'
    <3>1. ReqFits(req[b]) /\ req'[b] = req[b]
      BY DEF Orderly
    <3>2. row.vm # NoVM /\ vm[row.vm].st = "gone" => vm'[row.vm].st = "gone"
      BY <1>3 DEF ReconcileMoves
    <3> QED BY <1>1, <1>7, <3>1, <3>2 DEF ReqFits, Enqueues
  <2>3. RowOrderly'
    <3>1. RowOrderly
      BY DEF Orderly
    <3>2. row.vm # NoVM => /\ m[row.vm].on = vm[row.vm].on /\ m[row.vm].gen = vm[row.vm].gen
                           /\ m[row.vm].snap = vm[row.vm].snap /\ m[row.vm].proven = vm[row.vm].proven
                           /\ row.st # "error" => m[row.vm].st = vm[row.vm].st
      BY <1>3 DEF ReconcileMoves
    <3> QED BY <1>1, <1>3, <1>7, <3>1, <3>2 DEF RowOrderly, There, Forgetting
  <2>4. ASSUME NEW k \in Jobs PROVE JobFits(job[k])'
    <3>1. PICK n : n = job[k]
      OBVIOUS
    <3>2. JobFits(n) /\ job'[k] = n /\ n.vm \in VMs \cup {NoVM} /\ StateOf(n) \in Transient
      BY <1>3, <1>6, <3>1 DEF Orderly
    <3>3. (Busy(n)' <=> Busy(n)) /\ (Current(n)' <=> Current(n))
      BY <1>1 DEF Busy, Current, Wizard
    <3>4. n.vm # NoVM => /\ vm'[n.vm].on = vm[n.vm].on /\ vm'[n.vm].gen = vm[n.vm].gen
                         /\ vm'[n.vm].snap = vm[n.vm].snap /\ vm'[n.vm].proven = vm[n.vm].proven
                         /\ n.vm = row.vm /\ row.st # "error" => vm'[n.vm].st = vm[n.vm].st
      BY <3>2 DEF ReconcileMoves
    <3>5. Busy(n) => row.st # "error" /\ (sweep'.pc # "destroy" \/ sweep' = sweep)
      BY <3>2 DEF JobFits, ReconcileMoves, Transient
    <3>6. Busy(n) /\ n.type # "provision" => n.vm = row.vm /\ n.vm # NoVM /\ row.st # "error"
      BY <3>2 DEF JobFits, Transient
    <3>7. row'.st = row.st /\ row'.vm = row.vm /\ row'.src = row.src
      BY <1>1, <1>7
    <3>8. JobFits(n)'
      <4>1. (Busy(n) => Current(n) /\ row.st = StateOf(n))'
        BY <3>2, <3>3, <3>7 DEF JobFits, StateOf
      <4>2. (Busy(n) /\ n.type = "provision" /\ n.pc \in {"record", "boot", "advance"} =>
               /\ n.vm # NoVM
               /\ sweep.pc = "destroy" => n.vm # sweep.vm
               /\ n.pc # "record" => row.vm = n.vm
               /\ n.pc = "advance" => vm[n.vm].on \/ vm[n.vm].gen)'
        BY <3>2, <3>3, <3>4, <3>5, <3>7 DEF JobFits
      <4>3. (Busy(n) /\ n.type = "generalize" =>
               /\ n.pc = "off" => row.src = "clone_skip"
               /\ n.pc \in {"snapshot", "ready"} => row.src = "clone_skip" \/ vm[n.vm].gen
               /\ n.pc = "ready" => There(n.vm) /\ vm[n.vm].snap)'
        BY <3>2, <3>3, <3>4, <3>6, <3>7 DEF JobFits, There
      <4>4. (Current(n) /\ row.st \in Transient =>
               /\ n.st \in {"pending", "running"} /\ n.pc \notin {"done", "activate"} /\ row.st = StateOf(n)
               /\ n.type # "provision" => n.vm = row.vm /\ row.vm # NoVM)'
        BY <3>2, <3>3, <3>7 DEF JobFits, StateOf, Transient
      <4>5. (Busy(n) /\ n.type = "verify" /\ (n.pc = "promote" \/ (n.pc = "destroy" /\ n.pass)) => vm[n.vm].proven)'
        BY <3>2, <3>3, <3>4, <3>6 DEF JobFits
      <4> QED BY <4>1, <4>2, <4>3, <4>4, <4>5 DEF JobFits
    <3> QED BY <3>2, <3>8 DEF JobFits, Busy, Current, Wizard, StateOf
  <2> QED BY <1>2, <1>5, <2>1, <2>2, <2>3, <2>4 DEF Orderly
<1>8. CASE row.st \in {"draft", "error"} /\ r.st = "deleted" /\ r.vm = NoVM
  <2>1. row.st \notin Transient /\ r.st \notin Transient
    BY <1>8 DEF Transient
  <2>2. Served'
    BY <2>1 DEF Served
  <2>3. ASSUME NEW b \in Admins PROVE ReqFits(req[b])'
    <3>1. ReqFits(req[b]) /\ req'[b] = req[b]
      BY DEF Orderly
    <3> QED BY <1>1, <1>8, <2>1, <3>1 DEF ReqFits, Enqueues
  <2>4. RowOrderly'
    BY <1>8 DEF RowOrderly
  <2>5. ASSUME NEW k \in Jobs PROVE JobFits(job[k])'
    <3>1. ~Busy(job[k])
      BY <1>6, <2>1 DEF Orderly, JobFits
    <3>2. ~Busy(job[k])'
      BY <3>1 DEF Busy, Wizard
    <3> QED BY <2>1, <3>2 DEF JobFits
  <2> QED BY <1>2, <1>5, <2>2, <2>3, <2>4, <2>5 DEF Orderly
<1> QED BY <1>7, <1>8 DEF ReconcileMoves

\* A step of the reconciler keeps the invariant if it moves row, VMs and pass in that way
\* whenever no race has happened.
LEMMA ReconcileStep ==
  ASSUME IInv, NEW r \in Rows, NEW m \in [VMs -> Machines], NEW s \in Sweeps,
         row' = r, vm' = m, sweep' = s, UNCHANGED <<job, req>>,
         races' \subseteq Races, races \subseteq races',
         races' = {} /\ Orderly => ReconcileMoves(r, m, s) /\ Known(s.vm) /\ SweepOrderly'
  PROVE  IInv'
<1>1. TypeOK /\ ClonesHeld /\ (races = {} => Orderly)
  BY DEF IInv
<1>2. TypeOK'
  BY <1>1 DEF TypeOK
<1>3. ClonesHeld'
  BY <1>1 DEF ClonesHeld, CloneHeld
<1>4. ASSUME races' = {} PROVE Orderly'
  <2>1. Orderly
    BY <1>1, <1>4
  <2>2. ReconcileMoves(r, m, s) /\ Known(s.vm) /\ SweepOrderly'
    BY <1>4, <2>1
  <2> QED BY <1>1, <2>1, <2>2, ReconcileKeeps
<1> QED BY <1>2, <1>3, <1>4 DEF IInv

\* A pass that moves on, or a row or a VM that ages: nothing that matters changes.
LEMMA PassKeeps ==
  ASSUME IInv, NEW r \in Rows, NEW m \in [VMs -> Machines], NEW s \in Sweeps,
         row' = r, vm' = m, sweep' = s, UNCHANGED <<job, req, races>>,
         r.st = row.st, r.vm = row.vm, r.cycle = row.cycle, r.src = row.src,
         \A v \in VMs : /\ m[v].on = vm[v].on /\ m[v].gen = vm[v].gen /\ m[v].snap = vm[v].snap
                        /\ m[v].proven = vm[v].proven /\ m[v].st = vm[v].st,
         s.vm \in {sweep.vm, NoVM}, s.pc = "destroy" => s = sweep
  PROVE  IInv'
<1>0. TypeOK /\ races \subseteq Races
  BY DEF IInv, TypeOK
<1>1. ReconcileMoves(r, m, s)
  BY DEF ReconcileMoves
<1>2. ASSUME Orderly PROVE Known(s.vm) /\ SweepOrderly'
  <2>1. Known(s.vm)
    BY <1>2 DEF Orderly, AllKnown, Known
  <2>2. sweep.vm \in VMs \cup {NoVM}
    BY <1>0 DEF TypeOK, Sweeps
  <2>3. SweepOrderly'
    BY <1>2, <2>2 DEF Orderly, SweepOrderly
  <2> QED BY <2>1, <2>3
<1> QED BY <1>0, <1>1, <1>2, ReconcileStep

\* The inactivity window and MinAge.
LEMMA AgeKeeps ==
  ASSUME IInv, Age
  PROVE  IInv'
<1>0. TypeOK /\ row \in Rows /\ vm \in [VMs -> Machines] /\ sweep \in Sweeps
  BY DEF IInv, TypeOK
<1>1. PICK s : s = sweep
  OBVIOUS
<1>2. CASE row' = [row EXCEPT !.old = TRUE] /\ UNCHANGED <<vm, job, req, sweep, races>>
  <2>1. PICK r : r = [row EXCEPT !.old = TRUE]
    OBVIOUS
  <2>2. r \in Rows /\ r.st = row.st /\ r.vm = row.vm /\ r.cycle = row.cycle /\ r.src = row.src
    BY <1>0, <2>1 DEF Rows
  <2>3. PICK m : m = vm
    OBVIOUS
  <2> QED BY <1>0, <1>1, <1>2, <2>1, <2>2, <2>3, PassKeeps
<1>3. CASE \E v \in VMs : vm' = [vm EXCEPT ![v].old = TRUE] /\ UNCHANGED <<row, job, req, sweep, races>>
  <2>1. PICK v \in VMs : vm' = [vm EXCEPT ![v].old = TRUE]
    BY <1>3
  <2>2. PICK o : o = [vm[v] EXCEPT !.old = TRUE]
    OBVIOUS
  <2>3. /\ o \in Machines /\ o.st = vm[v].st /\ o.gen = vm[v].gen /\ o.on = vm[v].on
        /\ o.snap = vm[v].snap /\ o.proven = vm[v].proven
    BY <1>0, <2>2, OneOfEach DEF Machines
  <2>4. PICK m : m = [vm EXCEPT ![v] = o]
    OBVIOUS
  <2>5. m \in [VMs -> Machines] /\ m[v] = o /\ \A w \in VMs \ {v} : m[w] = vm[w]
    BY <1>0, <2>3, <2>4, Zenon DEF TypeOK
  <2>6. vm' = m
    BY <2>1, <2>2, <2>4
  <2>7. PICK r : r = row
    OBVIOUS
  <2>8. \A w \in VMs : /\ m[w].on = vm[w].on /\ m[w].gen = vm[w].gen /\ m[w].snap = vm[w].snap
                       /\ m[w].proven = vm[w].proven /\ m[w].st = vm[w].st
    BY <2>3, <2>5
  <2> QED BY <1>0, <1>1, <1>3, <2>5, <2>6, <2>7, <2>8, PassKeeps
<1> QED BY <1>2, <1>3 DEF Age

\* The two listings of the inventory pass.
LEMMA ListKeeps ==
  ASSUME IInv, ListVMsInFolder \/ ListOwnedTemplateFolderMorefs
  PROVE  IInv'
<1>0. TypeOK /\ row \in Rows /\ vm \in [VMs -> Machines] /\ sweep \in Sweeps
  BY DEF IInv, TypeOK
<1>1. UNCHANGED <<row, vm, job, req, races>>
  BY DEF ListVMsInFolder, ListOwnedTemplateFolderMorefs
<1>2. PICK s \in Sweeps : sweep' = s /\ s.vm = sweep.vm /\ s.pc # "destroy"
  <2>1. CASE ListVMsInFolder
    <3>1. PICK f : f = {v \in Named : vm[v].old}
      OBVIOUS
    <3>2. f \subseteq VMs
      BY <3>1 DEF Named
    <3>3. PICK s : s = [sweep EXCEPT !.pc = "owned", !.found = f]
      OBVIOUS
    <3>4. s \in Sweeps /\ s.vm = sweep.vm /\ s.pc = "owned"
      BY <1>0, <3>2, <3>3 DEF Sweeps
    <3> QED BY <2>1, <3>1, <3>3, <3>4 DEF ListVMsInFolder
  <2>2. CASE ListOwnedTemplateFolderMorefs
    <3>1. PICK s : s = [sweep EXCEPT !.pc = "inventory", !.found = @ \ {row.vm}]
      OBVIOUS
    <3>2. s \in Sweeps /\ s.vm = sweep.vm /\ s.pc = "inventory"
      BY <1>0, <3>1 DEF Sweeps
    <3> QED BY <2>2, <3>1, <3>2 DEF ListOwnedTemplateFolderMorefs
  <2> QED BY <2>1, <2>2
<1>3. PICK r : r = row
  OBVIOUS
<1>4. PICK m : m = vm
  OBVIOUS
<1> QED BY <1>0, <1>1, <1>2, <1>3, <1>4, PassKeeps

\* ClaimStaleWizardTemplateVM: a row with a VM that is draft or error is error.
LEMMA ClaimKeeps ==
  ASSUME IInv, ClaimStaleWizardTemplateVM
  PROVE  IInv'
<1>0. TypeOK /\ row \in Rows /\ vm \in [VMs -> Machines] /\ sweep \in Sweeps /\ races \subseteq Races
  BY DEF IInv, TypeOK
<1>1. /\ row.st \in {"draft", "error"} /\ row.vm # NoVM /\ UNCHANGED <<vm, job, req, races>>
  BY DEF ClaimStaleWizardTemplateVM, StaleRow
<1>2. PICK r : r = [row EXCEPT !.old = FALSE]
  OBVIOUS
<1>3. r \in Rows /\ r.st = row.st /\ r.vm = row.vm /\ r.cycle = row.cycle /\ r.src = row.src
  BY <1>0, <1>2 DEF Rows
<1>4. row' = r
  BY <1>2 DEF ClaimStaleWizardTemplateVM, SetRow
<1>5. PICK s : s = [sweep EXCEPT !.pc = "destroy", !.vm = row.vm]
  OBVIOUS
<1>6. s \in Sweeps /\ s.pc = "destroy" /\ s.vm = row.vm /\ sweep' = s
  BY <1>0, <1>5 DEF ClaimStaleWizardTemplateVM, Sweeps, Rows
<1>7. ASSUME Orderly PROVE ReconcileMoves(r, vm, s) /\ Known(s.vm) /\ SweepOrderly'
  <2>1. row.st = "error"
    BY <1>1, <1>7 DEF Orderly, RowOrderly
  <2>2. Known(s.vm)
    BY <1>6, <1>7 DEF Orderly, AllKnown, Known
  <2>3. ReconcileMoves(r, vm, s)
    BY <1>3, <2>1 DEF ReconcileMoves
  <2>4. SweepOrderly'
    BY <1>1, <1>3, <1>4, <1>6, <2>1 DEF SweepOrderly
  <2> QED BY <2>2, <2>3, <2>4
<1>8. PICK m : m = vm
  OBVIOUS
<1> QED BY <1>0, <1>1, <1>3, <1>4, <1>6, <1>7, <1>8, ReconcileStep

\* The pass destroys the VM it has claimed, or leaves it to the next one.
LEMMA OrphanKeeps ==
  ASSUME IInv, DestroyTemplateOrphanVM
  PROVE  IInv'
<1>0. TypeOK /\ row \in Rows /\ vm \in [VMs -> Machines] /\ sweep \in Sweeps /\ races \subseteq Races
  BY DEF IInv, TypeOK
<1>1. sweep.pc = "destroy" /\ UNCHANGED <<row, job, req, races>>
  BY DEF DestroyTemplateOrphanVM
<1>2. PICK r : r = row
  OBVIOUS
<1>3. CASE UNCHANGED vm /\ sweep' = NoSweep
  <2>1. PICK m : m = vm
    OBVIOUS
  <2>2. PICK s : s = NoSweep
    OBVIOUS
  <2>3. s \in Sweeps /\ s.vm = NoVM /\ s.pc = "idle"
    BY <2>2, Blank
  <2> QED BY <1>0, <1>1, <1>2, <1>3, <2>1, <2>2, <2>3, PassKeeps
<1>4. CASE vm' = Destroyed(sweep.vm) /\ sweep' = [sweep EXCEPT !.pc = "clear"]
  <2>1. PICK v : v = sweep.vm
    OBVIOUS
  <2>2. PICK m : m = Destroyed(v)
    OBVIOUS
  <2>3. vm' = m
    BY <1>4, <2>1, <2>2
  <2>4. /\ m \in [VMs -> Machines]
        /\ \A w \in VMs : /\ m[w].on = vm[w].on /\ m[w].gen = vm[w].gen
                          /\ m[w].snap = vm[w].snap /\ m[w].proven = vm[w].proven
                          /\ vm[w].st # "unused" => m[w].st # "unused"
                          /\ vm[w].st = "gone" => m[w].st = "gone"
                          /\ w # v => m[w].st = vm[w].st
    BY <1>0, <2>2, DestroyedShapes
  <2>5. PICK s : s = [sweep EXCEPT !.pc = "clear"]
    OBVIOUS
  <2>6. s \in Sweeps /\ s.pc = "clear" /\ s.vm = v /\ sweep' = s
    BY <1>0, <1>4, <2>1, <2>5 DEF Sweeps
  <2>7. ASSUME Orderly PROVE ReconcileMoves(r, m, s) /\ Known(s.vm) /\ SweepOrderly'
    <3>1. row.vm = v => row.st = "error"
      BY <1>1, <2>1, <2>7 DEF Orderly, SweepOrderly
    <3>2. Known(s.vm)
      BY <2>1, <2>6, <2>7 DEF Orderly, AllKnown, Known
    <3>3. SweepOrderly'
      BY <2>6 DEF SweepOrderly
    <3>4. ReconcileMoves(r, m, s)
      BY <1>2, <2>4, <2>6, <3>1 DEF ReconcileMoves
    <3> QED BY <3>2, <3>3, <3>4
  <2> QED BY <1>0, <1>1, <1>2, <2>3, <2>4, <2>6, <2>7, ReconcileStep
<1> QED BY <1>3, <1>4 DEF DestroyTemplateOrphanVM

\* The claimed row is deleted if it still is what was claimed.
LEMMA MatchKeeps ==
  ASSUME IInv, ClearTemplateVCenterVMIfMatch
  PROVE  IInv'
<1>0. TypeOK /\ row \in Rows /\ vm \in [VMs -> Machines] /\ sweep \in Sweeps /\ races \subseteq Races
  BY DEF IInv, TypeOK
<1>1. sweep' = NoSweep /\ UNCHANGED <<vm, job, req, races>>
  BY DEF ClearTemplateVCenterVMIfMatch
<1>2. PICK s : s = NoSweep
  OBVIOUS
<1>3. s \in Sweeps /\ s.pc = "idle" /\ s.vm = NoVM /\ sweep' = s
  BY <1>1, <1>2, Blank
<1>4. PICK m : m = vm
  OBVIOUS
<1>5. CASE row.vm = sweep.vm /\ row.st \in {"draft", "error"}
  <2>1. PICK r : r = [row EXCEPT !.st = "deleted", !.vm = NoVM, !.act = FALSE]
    OBVIOUS
  <2>2. r \in Rows /\ r.st = "deleted" /\ r.vm = NoVM /\ r.cycle = row.cycle /\ r.src = row.src
    BY <1>0, <2>1 DEF Rows
  <2>3. row' = r
    BY <1>5, <2>1 DEF ClearTemplateVCenterVMIfMatch
  <2>4. ReconcileMoves(r, m, s) /\ Known(s.vm) /\ SweepOrderly'
    BY <1>3, <1>4, <1>5, <2>2 DEF ReconcileMoves, Known, SweepOrderly
  <2> QED BY <1>0, <1>1, <1>3, <1>4, <2>2, <2>3, <2>4, ReconcileStep
<1>6. CASE ~(row.vm = sweep.vm /\ row.st \in {"draft", "error"})
  <2>1. row' = row
    BY <1>6 DEF ClearTemplateVCenterVMIfMatch
  <2>2. PICK r : r = row
    OBVIOUS
  <2> QED BY <1>0, <1>1, <1>3, <1>4, <2>1, <2>2, PassKeeps
<1> QED BY <1>5, <1>6

\* The inventory pass destroys a VM the row does not have, or it is a race.
LEMMA InventoryKeeps ==
  ASSUME IInv, DestroyInventoryVM
  PROVE  IInv'
<1>0. TypeOK /\ row \in Rows /\ vm \in [VMs -> Machines] /\ sweep \in Sweeps /\ races \subseteq Races
  BY DEF IInv, TypeOK
<1>1. sweep.pc = "inventory" /\ UNCHANGED <<row, job, req>>
  BY DEF DestroyInventoryVM
<1>2. PICK r : r = row
  OBVIOUS
<1>3. CASE sweep' = NoSweep /\ UNCHANGED <<vm, races>>
  <2>1. PICK m : m = vm
    OBVIOUS
  <2>2. PICK s : s = NoSweep
    OBVIOUS
  <2>3. s \in Sweeps /\ s.vm = NoVM /\ s.pc = "idle"
    BY <2>2, Blank
  <2> QED BY <1>0, <1>1, <1>2, <1>3, <2>1, <2>2, <2>3, PassKeeps
<1>4. ASSUME NEW v \in sweep.found, vm' = Destroyed(v), sweep' = [sweep EXCEPT !.found = @ \ {v}],
             races' = (IF row.vm = v THEN races \cup {"inventory"} ELSE races)
      PROVE  IInv'
  <2>1. PICK m : m = Destroyed(v)
    OBVIOUS
  <2>2. /\ m \in [VMs -> Machines]
        /\ \A w \in VMs : /\ m[w].on = vm[w].on /\ m[w].gen = vm[w].gen
                          /\ m[w].snap = vm[w].snap /\ m[w].proven = vm[w].proven
                          /\ vm[w].st # "unused" => m[w].st # "unused"
                          /\ vm[w].st = "gone" => m[w].st = "gone"
                          /\ w # v => m[w].st = vm[w].st
    BY <1>0, <2>1, DestroyedShapes
  <2>3. PICK s : s = [sweep EXCEPT !.found = @ \ {v}]
    OBVIOUS
  <2>4. s \in Sweeps /\ s.pc = "inventory" /\ s.vm = sweep.vm /\ sweep' = s
    BY <1>0, <1>1, <1>4, <2>3 DEF Sweeps
  <2>5. races \subseteq races' /\ races' \subseteq Races /\ (races' = {} => row.vm # v)
    BY <1>0, <1>4 DEF Races
  <2>6. ASSUME races' = {}, Orderly PROVE ReconcileMoves(r, m, s) /\ Known(s.vm) /\ SweepOrderly'
    <3>1. Known(s.vm)
      BY <2>4, <2>6 DEF Orderly, AllKnown, Known
    <3>2. SweepOrderly'
      BY <2>4 DEF SweepOrderly
    <3>3. ReconcileMoves(r, m, s)
      BY <1>2, <2>2, <2>4, <2>5, <2>6 DEF ReconcileMoves
    <3> QED BY <3>1, <3>2, <3>3
  <2> QED BY <1>0, <1>1, <1>2, <1>4, <2>1, <2>2, <2>4, <2>5, <2>6, ReconcileStep
<1> QED BY <1>3, <1>4 DEF DestroyInventoryVM

\* The invariant holds in the beginning.
LEMMA InitIInv == Init => IInv
<1> SUFFICES ASSUME Init PROVE IInv
  OBVIOUS
<1>1. row = [st |-> "none", vm |-> NoVM, act |-> FALSE, src |-> "none", old |-> FALSE, cycle |-> 0]
  BY DEF Init
<1>2. row \in Rows /\ row.st = "none" /\ row.vm = NoVM /\ row.cycle = 0
  BY <1>1 DEF Rows
<1>3. vm \in [VMs -> Machines]
  BY DEF Init, Machines
<1>4. (\A j \in Jobs : job[j] = NoJob) /\ (\A a \in Admins : req[a] = NoReq) /\ sweep = NoSweep /\ races = {}
  BY DEF Init
<1>5. job \in [Jobs -> JobRows] /\ req \in [Admins -> Requests] /\ sweep \in Sweeps
  BY Blank DEF Init
<1>6. TypeOK
  BY <1>2, <1>3, <1>4, <1>5 DEF TypeOK
<1>7. ClonesHeld
  BY <1>4, Blank DEF ClonesHeld, CloneHeld
<1>8. \A j \in Jobs : ~Wizard(job[j])
  BY <1>4, Blank DEF Wizard
<1>9. \A a \in Admins : ~Enqueues(req[a]) /\ req[a].op = "idle" /\ req[a].cycle = 0 /\ req[a].vm = NoVM
  BY <1>4, Blank DEF Enqueues
<1>10. OneWorker
  BY <1>2, <1>8, <1>9 DEF OneWorker, Current
<1>11. AllKnown
  BY <1>2, <1>4, <1>9, Blank DEF AllKnown, Known
<1>12. Served /\ RowOrderly
  BY <1>2 DEF Served, RowOrderly, Transient
<1>13. SweepOrderly
  BY <1>4, Blank DEF SweepOrderly
<1>14. \A j \in Jobs : JobFits(job[j])
  BY <1>8 DEF JobFits, Busy, Current
<1>15. \A a \in Admins : ReqFits(req[a])
  BY <1>9 DEF ReqFits
<1> QED BY <1>6, <1>7, <1>10, <1>11, <1>12, <1>13, <1>14, <1>15 DEF IInv, Orderly

\* Every step keeps the invariant.
LEMMA NextIInv == IInv /\ [Next]_vars => IInv'
<1> SUFFICES ASSUME IInv, [Next]_vars PROVE IInv'
  OBVIOUS
<1>1. ASSUME NEW a \in Admins, Handler(a) PROVE IInv'
  BY <1>1, CreateKeeps, DraftKeeps, CycleKeeps, EnqueueKeeps, EnqueueFailedKeeps, UnpublishKeeps,
     HideKeeps, RetryKeeps, ReadKeeps, DestroyKeeps, ClearKeeps, CancelKeeps, DeleteKeeps,
     PowerKeeps, ApiCrashKeeps DEF Handler
<1>2. ASSUME NEW j \in Jobs, Body(j) PROVE IInv'
  BY <1>2, CompleteKeeps, ProvisionKeeps, CloneKeeps, RecordKeeps, BootKeeps, AdvanceKeeps,
     GeneralizeKeeps, GeneralizeRunKeeps, ReadyKeeps, VerifyKeeps, SmokeCloneKeeps, RunSmokeKeeps, CleanupKeeps,
     PromoteKeeps, ActivateKeeps, RevalidateKeeps DEF Body
<1>3. ASSUME Reconcile PROVE IInv'
  BY <1>3, AgeKeeps, ClaimKeeps, OrphanKeeps, MatchKeeps, ListKeeps, InventoryKeeps,
     SmokeSweptKeeps, RevalidateJobKeeps DEF Reconcile
<1>4. CASE UNCHANGED vars
  <2>1. UNCHANGED <<row, vm, job, req, sweep, races>>
    BY <1>4 DEF vars
  <2>2. TypeOK' /\ ClonesHeld'
    BY <2>1 DEF IInv, TypeOK, ClonesHeld, CloneHeld
  <2>3. Orderly => Orderly'
    BY <2>1 DEF Orderly, OneWorker, AllKnown, Served, RowOrderly, SweepOrderly, JobFits, ReqFits,
                Current, Wizard, Enqueues, Busy, StateOf, Known, There, Forgetting
  <2> QED BY <2>1, <2>2, <2>3 DEF IInv
<1> QED BY <1>1, <1>2, <1>3, <1>4, CrashKeeps DEF Next

\* The inductive invariant: whatever jobs, requests and reconciler do, the template
\* stays in order as long as none of the recorded races has happened.
THEOREM TemplateInvariant == Spec => []IInv
BY InitIInv, NextIInv, PTL DEF Spec

\* The types of the template, its VMs, jobs, requests and of the pass.
THEOREM TemplateTypes == Spec => []TypeOK
<1>1. IInv => TypeOK
  BY DEF IInv
<1> QED BY <1>1, TemplateInvariant, PTL

\* advanceTemplateAndEnqueue, lease recovery and every way in which a job of the wizard
\* can stop: a template in a state only a job can leave has that job or the request about
\* to create it, unless the API died in between or a job ended without its mark on the
\* template, both of which are recorded in races.
THEOREM TemplateNeverStuck == Spec => []NoStuckTemplate
<1>1. IInv => NoStuckTemplate
  <2> SUFFICES ASSUME IInv, row.st \in Transient, races = {}
               PROVE  \/ \E j \in Jobs : Live(j) /\ job[j].type = JobFor(row.st) /\ job[j].cycle = row.cycle
                      \/ \E a \in Admins : req[a].op = "enqueue" /\ req[a].to = row.st
    BY DEF NoStuckTemplate
  <2>1. Orderly
    BY DEF IInv
  <2>2. CASE \E j \in Jobs : Current(job[j])
    <3>1. PICK j \in Jobs : Current(job[j])
      BY <2>2
    <3>2. job[j].st \in {"pending", "running"} /\ row.st = StateOf(job[j])
      BY <2>1, <3>1 DEF Orderly, JobFits
    <3>3. job[j].type = JobFor(row.st) /\ job[j].cycle = row.cycle
      BY <3>1, <3>2 DEF Current, Wizard, StateOf, JobFor
    <3> QED BY <3>2, <3>3 DEF Live
  <2>3. CASE \E a \in Admins : Enqueues(req[a])
    BY <2>1, <2>3 DEF Orderly, ReqFits, Enqueues
  <2> QED BY <2>1, <2>2, <2>3 DEF Orderly, Served
<1> QED BY <1>1, TemplateInvariant, PTL

\* CreateSnapshot, AdminCancelTemplate, AdminDeleteTemplate and the reconciler: a template
\* that is ready, being verified or published has its VM and its base image, unless
\* somebody is about to forget the VM.
THEOREM TemplateImageKept == Spec => []BaseImageKept
<1>1. IInv => BaseImageKept
  BY DEF IInv, Orderly, RowOrderly, BaseImageKept, Forgetting
<1> QED BY <1>1, TemplateInvariant, PTL

\* AdminPublishTemplate: the last publish check of a published VM was passed, through
\* crashes, retries and cleanups between the verdict and the promotion, and the VM was
\* generalized unless that was declined.
THEOREM TemplateProven == Spec => []PublishedIsProven
<1>1. IInv => PublishedIsProven
  BY DEF IInv, Orderly, RowOrderly, PublishedIsProven
<1> QED BY <1>1, TemplateInvariant, PTL

\* ExecuteDurableVMClone, FinishStandaloneVMCloneCleanup and lease recovery: a smoke clone
\* has a live job, or one that ended asking for manual cleanup, races or not.
THEOREM TemplateCloneOwned == Spec => []SmokeCloneOwned
<1>1. IInv => SmokeCloneOwned
  BY DEF IInv, ClonesHeld, CloneHeld, SmokeCloneOwned, Live
<1> QED BY <1>1, TemplateInvariant, PTL

\* ClaimStaleWizardTemplateVM: what the pass destroys is the VM of an abandoned row.
THEOREM TemplateSweepSpares == Spec => SweepSparesLive
<1>1. IInv /\ [Next]_vars => SparesLive
  BY DEF IInv, Orderly, SweepOrderly, SparesLive
<1>2. IInv /\ [Next]_vars => [SparesLive]_vars
  BY <1>1
<1> QED BY <1>2, TemplateInvariant, PTL DEF Spec, SweepSparesLive
=============================================================================
