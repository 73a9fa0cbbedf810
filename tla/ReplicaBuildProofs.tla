------------------------- MODULE ReplicaBuildProofs -------------------------
(***************************************************************************)
(* What ReplicaBuild promises, proved for every set of builds and compute   *)
(* resources, every set of defects and every limit of retries and restarts. *)
(*                                                                         *)
(* All that concerns one build is a relation, Honest, between its row, its  *)
(* job, the place of its run, its late calls and its VMs.  The first part   *)
(* shows for each kind of change of these values that they stay honest; the *)
(* second ties builds to replicas; the third goes through the actions.      *)
(***************************************************************************)
EXTENDS ReplicaBuild, TLAPS

\* The types of the fields of a build's VMs.
LEMMA VMType ==
  ASSUME NEW v \in VMs
  PROVE  /\ v.clone \in VMStates /\ v.canary \in VMStates
         /\ v.snapshot \in {"none", "running", "failed", "exists"}
         /\ v.facts \in Facts /\ v.submits \in [Created -> 0 .. 2]
         /\ v["clone"] = v.clone /\ v["canary"] = v.canary /\ v["snapshot"] = v.snapshot
BY DEF VMs

\* Any change of them is one of their fields.
LEMMA NewVMs ==
  ASSUME NEW v \in VMs, NEW cl \in VMStates, NEW ca \in VMStates,
         NEW sn \in {"none", "running", "failed", "exists"},
         NEW f \in Facts, NEW s \in [Created -> 0 .. 2],
         NEW w, w = [v EXCEPT !.clone = cl, !.canary = ca, !.snapshot = sn, !.facts = f, !.submits = s]
  PROVE  w \in VMs /\ w.clone = cl /\ w.canary = ca /\ w.snapshot = sn /\ w.facts = f /\ w.submits = s
BY DEF VMs

\* One call is counted.
LEMMA Bump ==
  ASSUME NEW t \in [Created -> 0 .. 2], NEW x \in Created
  PROVE  LET s == [t EXCEPT ![x] = 1]
         IN  s \in [Created -> 0 .. 2] /\ s[x] = 1 /\ \A y \in Created \ {x} : s[y] = t[y]
OBVIOUS

\* The phases in which the calls are armed.
LEMMA Phase ==
  /\ ArmedPhase("clone") = "clone_submitting" /\ ArmedPhase("snapshot") = "snapshot_submitting"
  /\ ArmedPhase("canary") = "canary_submitting" /\ ArmedPhase("canary_cleanup") = "cleanup_submitting"
  /\ ArmedPhase("residue_cleanup") = "residue_submitting"
BY DEF ArmedPhase

\* The types of the fields of a build's row.
LEMMA BuildType ==
  ASSUME NEW row \in Build
  PROVE  /\ row.status \in Active \cup {"none", "ready", "failed", "retired"} /\ row.phase \in Phases
         /\ row.resume \in Forward /\ row.code \in {"", "task_failed", "other"}
         /\ row.dest \in BOOLEAN /\ row.cleaned \in BOOLEAN /\ row.result \in BOOLEAN
         /\ row.canary \in BOOLEAN /\ row.cdone \in BOOLEAN
         /\ row.source \in Computes \cup {None} /\ row.compute \in Computes \cup {None}
BY DEF Build

\* The types of the fields of a job.
LEMMA JobType ==
  ASSUME NEW j \in Jobs
  PROVE  /\ j.st \in {"none", "pending", "active", "ended"} /\ j.cleanup \in BOOLEAN
         /\ j.tries \in 0 .. MaxRetries /\ j.restarts \in 0 .. MaxRestarts
BY DEF Jobs

-----------------------------------------------------------------------------
(***************************************************************************)
(* One build.                                                               *)
(***************************************************************************)

\* What a failed run writes.
LEMMA FailedRow ==
  ASSUME NEW row \in Build, NEW err
  PROVE  LET f == Failed(row, err)
         IN  /\ f \in Build
             /\ f.status \in {"retiring", "failed", "cleanup_required"}
             /\ f.status = "retiring" <=> row.status = "retiring"
             /\ f.status = "failed" => ~row.dest \/ row.cleaned
             /\ f.phase \in {"failed", "cleanup_required"}
             /\ f.resume = IF row.status \in Running /\ row.phase \in Forward THEN row.phase ELSE row.resume
             /\ f.dest = row.dest /\ f.cleaned = row.cleaned /\ f.result = row.result
             /\ f.source = row.source /\ f.compute = row.compute
             /\ f.canary = row.canary /\ f.cdone = row.cdone
<1> DEFINE residue == err = "ambiguous" \/ (row.dest /\ ~row.cleaned)
           st == IF row.status = "retiring" THEN "retiring"
                 ELSE IF residue THEN "cleanup_required" ELSE "failed"
           ph == IF residue THEN "cleanup_required" ELSE "failed"
           co == IF err = "task" /\ ~residue /\ row.status # "retiring" THEN "task_failed" ELSE "other"
           re == IF row.status \in {"pending", "running"} /\ row.phase \in Forward
                 THEN row.phase ELSE row.resume
<1>1. st \in Active \cup {"none", "ready", "failed", "retired"} /\ st \in {"retiring", "failed", "cleanup_required"}
      /\ (st = "retiring" <=> row.status = "retiring") /\ (st = "failed" => ~row.dest \/ row.cleaned)
  BY BuildType DEF Active
<1>2. ph \in Phases /\ ph \in {"failed", "cleanup_required"}
  BY DEF Phases
<1>3. co \in {"", "task_failed", "other"}
  OBVIOUS
<1>4. re \in Forward /\ re = IF row.status \in Running /\ row.phase \in Forward THEN row.phase ELSE row.resume
  BY BuildType DEF Running
<1>5. Failed(row, err) = [row EXCEPT !.status = st, !.phase = ph, !.code = co, !.resume = re]
  BY Zenon DEF Failed
<1> HIDE DEF st, ph, co, re
<1> QED
  BY ZenonT(60), <1>1, <1>2, <1>3, <1>4, <1>5 DEF Build

\* A failed build is honest.
LEMMA HonestFails ==
  ASSUME NEW row \in Build, NEW j \in Jobs, NEW l \in SUBSET Calls, NEW v \in VMs, NEW err,
         Honest(row, j, "step", l, v), row.status \notin {"none", "ready", "retired"}
  PROVE  Honest(Failed(row, err), j, "end", l, v)
<1>1. PICK f : f = Failed(row, err)
  OBVIOUS
<1>2. ArmedOnce("end", l, v)
  BY DEF Honest, ArmedOnce, Created
<1>3. RunFollows(f, j, "end", l, v)
  BY ZenonT(60), <1>1, FailedRow, BuildType DEF Honest, RunFollows, Calls, Running, Forward
<1>4. ResidueIsOver(f, "end", l, v)
  BY <1>1, FailedRow, BuildType DEF Honest, ResidueIsOver, Residual, Running
<1>5. PhaseIsTrue(f, "end", l, v)
  BY <1>1, FailedRow DEF PhaseIsTrue, Running
<1>6. ResumeIsSafe(f, j, "end", l, v)
  <2>1. ~f.dest => Unsent("end", l, v, "snapshot") /\ Unsent("end", l, v, "canary")
    BY <1>1, FailedRow DEF Honest, ResumeIsSafe, Unsent
  <2>2. f.resume \notin BeforeClone => f.dest
    BY <1>1, FailedRow DEF Honest, ResumeIsSafe, PhaseIsTrue
  <2>3. f.status \in {"failed", "cleanup_required"} /\ f.resume = "pending" => Unsent("end", l, v, "clone")
    <3>1. CASE row.status \in Running /\ row.phase \in Forward
      BY <3>1, <1>1, FailedRow DEF Honest, PhaseIsTrue, Unsent
    <3>2. CASE row.status \notin Running
      <4>1. row.status \in {"failed", "cleanup_required", "retiring"}
        BY <3>2, BuildType DEF Running, Active
      <4>2. f.status # "retiring" => row.status # "retiring"
        BY <1>1, FailedRow
      <4>3. f.resume = row.resume
        BY <3>2, <1>1, FailedRow
      <4> QED BY <4>1, <4>2, <4>3 DEF Honest, ResumeIsSafe, Unsent
    <3> QED BY <3>1, <3>2 DEF Honest, RunFollows
  <2>4. f.status = "failed" /\ ~f.cleaned => ~f.dest
    BY <1>1, FailedRow, BuildType
  <2> QED BY <2>1, <2>2, <2>3, <2>4 DEF ResumeIsSafe
<1>7. AcceptedIsSound(f, j, "end", v)
  BY <1>1, FailedRow DEF AcceptedIsSound
<1> QED
  BY <1>1, <1>2, <1>3, <1>4, <1>5, <1>6, <1>7 DEF Honest

\* A job that goes back to the queue, or is claimed from it, or ends, leaves its build as it is.
LEMMA HonestJob ==
  ASSUME NEW row \in Build, NEW j \in Jobs, NEW l \in SUBSET Calls, NEW v \in VMs,
         NEW r \in {"idle", "step", "end"}, NEW k \in Jobs, NEW q \in {"idle", "step", "end"},
         Honest(row, j, r, l, v), row.status # "none",
         k.cleanup = j.cleanup, q # "idle" <=> k.st = "active",
         k.st = "ended" \/ q = "end" => j.st = "ended" \/ r = "end"
  PROVE  Honest(row, k, q, l, v)
<1>2. ArmedOnce(q, l, v)
  BY DEF Honest, ArmedOnce, Created
<1>3. RunFollows(row, k, q, l, v)
  BY BuildType DEF Honest, RunFollows, Calls
<1>4. ResidueIsOver(row, q, l, v)
  BY DEF Honest, ResidueIsOver, Residual
<1>5. PhaseIsTrue(row, q, l, v)
  BY DEF Honest, PhaseIsTrue, Unsent
<1>6. ResumeIsSafe(row, k, q, l, v)
  BY DEF Honest, ResumeIsSafe, Unsent
<1>7. AcceptedIsSound(row, k, q, v)
  BY DEF Honest, AcceptedIsSound, Calls
<1> QED
  BY <1>2, <1>3, <1>4, <1>5, <1>6, <1>7 DEF Honest

\* A run that loses its claim leaves its armed call behind.
LEMMA HonestLost ==
  ASSUME NEW row \in Build, NEW j \in Jobs, NEW l \in SUBSET Calls, NEW v \in VMs,
         NEW r \in Calls \cup {"idle", "step", "end"}, NEW k \in Jobs,
         Honest(row, j, r, l, v), j.st = "active", k.st = "pending", k.cleanup = j.cleanup
  PROVE  Honest(row, k, "idle", l \cup ({r} \cap Calls), v)
<1>1. PICK m : m = l \cup ({r} \cap Calls)
  OBVIOUS
<1>2. ArmedOnce("idle", m, v)
  BY <1>1 DEF Honest, ArmedOnce, Created, Calls
<1>a. row.status # "none"
  BY DEF Honest, RunFollows
<1>3. RunFollows(row, k, "idle", m, v)
  BY <1>1, <1>a, BuildType DEF Honest, RunFollows, Calls
<1>4. ResidueIsOver(row, "idle", m, v)
  BY <1>1 DEF Honest, ResidueIsOver, Residual
<1>5. PhaseIsTrue(row, "idle", m, v)
  BY <1>1 DEF Honest, PhaseIsTrue, Unsent
<1>6. ResumeIsSafe(row, k, "idle", m, v)
  BY <1>1 DEF Honest, ResumeIsSafe, Unsent
<1>7. AcceptedIsSound(row, k, "idle", v)
  BY DEF Honest, AcceptedIsSound, Calls
<1> QED
  BY <1>1, <1>2, <1>3, <1>4, <1>5, <1>6, <1>7 DEF Honest

\* The armed call of the run is spent, whether it was made or not: what remains
\* to be shown is that the VMs may be as they are.
LEMMA HonestStep ==
  ASSUME NEW row \in Build, NEW j \in Jobs, NEW l \in SUBSET Calls, NEW v \in VMs,
         NEW r \in Calls \cup {"idle", "step", "end"}, Honest(row, j, r, l, v), r \in Calls
  PROVE  Honest(row, j, "step", l, v) /\ j.st = "active" /\ row.status \notin {"none", "ready"}
<1>a. j.st = "active" /\ row.status \notin {"none", "ready"}
  BY DEF Honest, RunFollows, AcceptedIsSound, Calls
<1>2. ArmedOnce("step", l, v)
  BY DEF Honest, ArmedOnce, Created
<1>3. RunFollows(row, j, "step", l, v)
  BY <1>a, BuildType DEF Honest, RunFollows, Calls
<1>4. ResidueIsOver(row, "step", l, v)
  BY DEF Honest, ResidueIsOver, Residual
<1>5. PhaseIsTrue(row, "step", l, v)
  BY DEF Honest, PhaseIsTrue, Unsent
<1>6. ResumeIsSafe(row, j, "step", l, v)
  BY DEF Honest, ResumeIsSafe, Unsent
<1>7. AcceptedIsSound(row, j, "step", v)
  BY <1>a DEF Honest, AcceptedIsSound
<1> QED
  BY <1>a, <1>2, <1>3, <1>4, <1>5, <1>6, <1>7 DEF Honest

\* The creating call x of the run, or a late one, reaches vCenter: it was not
\* made before, and the build is in no phase that would make it again.
LEMMA HonestSends ==
  ASSUME NEW row \in Build, NEW j \in Jobs, NEW l \in SUBSET Calls, NEW v \in VMs,
         NEW r \in Calls \cup {"idle", "step", "end"}, Honest(row, j, r, l, v),
         NEW x \in Created, NEW m \in SUBSET Calls, NEW q \in Calls \cup {"idle", "step", "end"},
         \/ r = x /\ q = "step" /\ m = l
         \/ x \in l /\ q = r /\ m = l \ {x},
         NEW w \in VMs, w[x] = "running", w.submits[x] = 1, w.facts = v.facts,
         \A y \in Created \ {x} : w[y] = v[y] /\ w.submits[y] = v.submits[y]
  PROVE  Honest(row, j, q, m, w)
<1>1. /\ v[x] = "none" /\ v.submits[x] = 0 /\ row.status \notin {"none", "ready"}
      /\ ~Unsent(r, l, v, x) /\ (q \in Calls => q = r) /\ (q # "idle" <=> r # "idle")
  BY VMType DEF Honest, ArmedOnce, RunFollows, Unsent, Created, AcceptedIsSound, Calls
<1>2. ArmedOnce(q, m, w)
  BY <1>1 DEF Honest, ArmedOnce, Created
<1>3. RunFollows(row, j, q, m, w)
  BY <1>1, BuildType DEF Honest, RunFollows
<1>v. /\ w["clone"] = w.clone /\ w["canary"] = w.canary /\ w["snapshot"] = w.snapshot
      /\ v["clone"] = v.clone /\ v["canary"] = v.canary /\ v["snapshot"] = v.snapshot
  BY VMType
<1>c. /\ x # "clone" => w.clone = v.clone
      /\ x # "snapshot" => w.snapshot = v.snapshot
      /\ x # "canary" => w.canary = v.canary
  BY <1>v DEF Created
<1>e. /\ x = "clone" => v.clone = "none" /\ w.clone = "running"
      /\ x = "snapshot" => v.snapshot = "none"
      /\ x = "canary" => v.canary = "none"
  BY <1>v, <1>1
<1>d. \A y \in Created : Unsent(r, l, v, y) => Unsent(q, m, w, y)
  BY <1>1 DEF Unsent, Created, Calls
<1>4. ResidueIsOver(row, q, m, w)
  BY <1>c, <1>e DEF Honest, ResidueIsOver, Residual, Created
<1>5. PhaseIsTrue(row, q, m, w)
  BY <1>c, <1>e, <1>d DEF Honest, PhaseIsTrue, Created
<1>6. ResumeIsSafe(row, j, q, m, w)
  BY <1>d DEF Honest, ResumeIsSafe, Created
<1>7. AcceptedIsSound(row, j, q, w)
  BY <1>1 DEF AcceptedIsSound
<1> QED
  BY <1>2, <1>3, <1>4, <1>5, <1>6, <1>7 DEF Honest

\* A destroy call of the run, or a late one, reaches vCenter.
LEMMA HonestDestroys ==
  ASSUME NEW row \in Build, NEW j \in Jobs, NEW l \in SUBSET Calls, NEW v \in VMs,
         NEW r \in Calls \cup {"idle", "step", "end"}, Honest(row, j, r, l, v),
         NEW call \in {"canary_cleanup", "residue_cleanup"},
         NEW m \in SUBSET Calls, NEW q \in Calls \cup {"idle", "step", "end"},
         \/ r = call /\ q = "step" /\ m = l
         \/ call \in l /\ q = r /\ m = l \ {call},
         NEW w \in VMs, w.submits = v.submits, w.facts = v.facts, w.snapshot = v.snapshot,
         call = "canary_cleanup" => w.clone = v.clone,
         call = "residue_cleanup" => w.canary = v.canary,
         w.clone = v.clone \/ (v.clone = "exists" /\ w.clone = "destroying"),
         w.canary = v.canary \/ (v.canary = "exists" /\ w.canary = "destroying")
  PROVE  Honest(row, j, q, m, w)
<1>1. /\ row.status # "none" /\ (q \in Calls => q = r) /\ (q # "idle" <=> r # "idle")
      /\ call = "residue_cleanup" => row.dest /\ row.status \notin Running \cup {"none", "ready"}
  BY VMType DEF Honest, RunFollows, ResidueIsOver, Residual, Calls
<1>v. /\ w["clone"] = w.clone /\ w["canary"] = w.canary /\ w["snapshot"] = w.snapshot
      /\ v["clone"] = v.clone /\ v["canary"] = v.canary /\ v["snapshot"] = v.snapshot
  BY VMType
<1>2. ArmedOnce(q, m, w)
  BY <1>1, <1>v DEF Honest, ArmedOnce, Created
<1>3. RunFollows(row, j, q, m, w)
  BY <1>1, BuildType DEF Honest, RunFollows
<1>d. \A y \in Created : Unsent(r, l, v, y) => Unsent(q, m, w, y)
  BY <1>1 DEF Unsent, Created, Calls
<1>4. ResidueIsOver(row, q, m, w)
  BY <1>1 DEF Honest, ResidueIsOver, Residual
<1>5. PhaseIsTrue(row, q, m, w)
  BY <1>1, <1>d DEF Honest, PhaseIsTrue, Created
<1>6. ResumeIsSafe(row, j, q, m, w)
  BY <1>d DEF Honest, ResumeIsSafe, Created
<1>7. AcceptedIsSound(row, j, q, w)
  BY <1>1 DEF Honest, AcceptedIsSound
<1> QED
  BY <1>2, <1>3, <1>4, <1>5, <1>6, <1>7 DEF Honest

\* A task of vCenter ends.
LEMMA HonestTask ==
  ASSUME NEW row \in Build, NEW j \in Jobs, NEW l \in SUBSET Calls, NEW v \in VMs,
         NEW r \in Calls \cup {"idle", "step", "end"}, Honest(row, j, r, l, v),
         NEW w \in VMs, w.submits = v.submits,
         \/ w.clone = v.clone /\ w.facts = v.facts
         \/ v.clone = "running" /\ w.clone \in {"exists", "failed"}
         \/ v.clone = "destroying" /\ w.clone \in {"exists", "gone"},
         w.snapshot = v.snapshot \/ (v.snapshot = "running" /\ w.snapshot \in {"exists", "failed"}),
         \/ w.canary = v.canary
         \/ v.canary = "running" /\ w.canary \in {"exists", "failed"}
         \/ v.canary = "destroying" /\ w.canary \in {"exists", "gone"}
  PROVE  Honest(row, j, r, l, w)
<1>v. /\ w["clone"] = w.clone /\ w["canary"] = w.canary /\ w["snapshot"] = w.snapshot
      /\ v["clone"] = v.clone /\ v["canary"] = v.canary /\ v["snapshot"] = v.snapshot
  BY VMType
<1>2. ArmedOnce(r, l, w)
  BY <1>v DEF Honest, ArmedOnce, Created
<1>3. RunFollows(row, j, r, l, w)
  BY DEF Honest, RunFollows, Unsent
<1>4. ResidueIsOver(row, r, l, w)
  BY DEF Honest, ResidueIsOver, Residual
<1>5. PhaseIsTrue(row, r, l, w)
  <2>1. row.status \in Running /\ row.dest => w.clone = "exists" /\ w.facts = v.facts
    BY DEF Honest, PhaseIsTrue
  <2> QED BY <2>1, BuildType DEF Honest, PhaseIsTrue, Unsent, BeforeSeal
<1>6. ResumeIsSafe(row, j, r, l, w)
  BY DEF Honest, ResumeIsSafe, Unsent
<1>7. AcceptedIsSound(row, j, r, w)
  BY DEF Honest, AcceptedIsSound
<1> QED
  BY <1>2, <1>3, <1>4, <1>5, <1>6, <1>7 DEF Honest

-----------------------------------------------------------------------------
(***************************************************************************)
(* Builds and replicas.                                                     *)
(***************************************************************************)

\* Build b alone changes, to row, j, r, l and v, and nothing is selected.
Becomes(b, row, j, r, l, v) ==
    /\ build' = [build EXCEPT ![b] = row] /\ job' = [job EXCEPT ![b] = j]
    /\ run' = [run EXCEPT ![b] = r] /\ late' = [late EXCEPT ![b] = l]
    /\ vc' = [vc EXCEPT ![b] = v]

Typed(row, j, r, l, v) ==
    /\ row \in Build /\ j \in Jobs /\ r \in Calls \cup {"idle", "step", "end"}
    /\ l \in SUBSET Calls /\ v \in VMs

\* A build that becomes honest leaves all builds honest.
LEMMA OthersHonest ==
  ASSUME IInv, NEW b \in Builds, NEW row, NEW j, NEW r, NEW l, NEW v,
         Typed(row, j, r, l, v), Becomes(b, row, j, r, l, v), Honest(row, j, r, l, v)
  PROVE  /\ build' \in [Builds -> Build] /\ job' \in [Builds -> Jobs]
         /\ run' \in [Builds -> Calls \cup {"idle", "step", "end"}]
         /\ late' \in [Builds -> SUBSET Calls] /\ vc' \in [Builds -> VMs]
         /\ build'[b] = row
         /\ \A a \in Builds \ {b} : build'[a] = build[a]
         /\ \A a \in Builds : Honest(build'[a], job'[a], run'[a], late'[a], vc'[a])
<1>1. /\ build' \in [Builds -> Build] /\ job' \in [Builds -> Jobs]
      /\ run' \in [Builds -> Calls \cup {"idle", "step", "end"}]
      /\ late' \in [Builds -> SUBSET Calls] /\ vc' \in [Builds -> VMs]
  BY DEF IInv, TypeOK, Typed, Becomes
<1>2. /\ build'[b] = row /\ job'[b] = j /\ run'[b] = r /\ late'[b] = l /\ vc'[b] = v
      /\ \A a \in Builds \ {b} : /\ build'[a] = build[a] /\ job'[a] = job[a] /\ run'[a] = run[a]
                                 /\ late'[a] = late[a] /\ vc'[a] = vc[a]
  BY DEF IInv, TypeOK, Becomes
<1>3. \A a \in Builds : Honest(build'[a], job'[a], run'[a], late'[a], vc'[a])
  <2>1. TAKE a \in Builds
  <2>2. CASE a = b
    BY <2>2, <1>2
  <2>3. CASE a # b
    BY <2>3, <1>2 DEF IInv
  <2> QED BY <2>2, <2>3
<1> QED BY <1>1, <1>2, <1>3

\* A step of one build that neither selects nor removes a replica: what it
\* reserves is free or its own, and it runs on only if its source is ready.
LEMMA StepKeeps ==
  ASSUME IInv, NEW b \in Builds, NEW row, NEW j, NEW r, NEW l, NEW v,
         Typed(row, j, r, l, v), Becomes(b, row, j, r, l, v), Honest(row, j, r, l, v),
         placed' = placed, row.status \notin {"none", "retired"} \/ row.status = build[b].status,
         build[b].status = "ready" => row.status = "ready",
         row.status # "none" => row.compute # None,
         row.status \in Running => row.source # None /\ replica[row.source].st = "ready",
         \/ /\ replica' = replica /\ row.result = build[b].result
            /\ row.compute = build[b].compute \/ ~row.result
         \/ /\ row.result /\ row.status \notin {"none", "retired"} /\ row.compute = build[b].compute
            /\ replica[row.compute].st # "ready" /\ row.status # "ready"
            /\ build[b].result \/ replica[row.compute].st = "none"
            /\ \E s \in {"pending", "unhealthy"} :
                  replica' = [replica EXCEPT ![row.compute] = [st |-> s, of |-> b]]
  PROVE  IInv'
<1>1. /\ build' \in [Builds -> Build] /\ job' \in [Builds -> Jobs]
      /\ run' \in [Builds -> Calls \cup {"idle", "step", "end"}]
      /\ late' \in [Builds -> SUBSET Calls] /\ vc' \in [Builds -> VMs]
      /\ build'[b] = row
      /\ \A a \in Builds \ {b} : build'[a] = build[a]
      /\ \A a \in Builds : Honest(build'[a], job'[a], run'[a], late'[a], vc'[a])
  BY OthersHonest
<1>2. /\ \A a \in Builds : build[a] \in Build /\ RowHonest(build[a], replica)
      /\ \A c \in Computes : ReplicaHonest(c)
      /\ replica \in [Computes -> Replica] /\ placed \subseteq Computes
      /\ row \in Build /\ \A c \in Computes : replica[c].of \in Builds \cup {None}
  BY DEF IInv, TypeOK, Typed, Replica
<1>3. /\ row.compute \in Computes \cup {None} /\ row.source \in Computes \cup {None}
      /\ \A a \in Builds : build[a].compute \in Computes \cup {None} /\ build[a].source \in Computes \cup {None}
  BY <1>2, BuildType
<1>4. CASE replica' = replica /\ row.result = build[b].result /\ (row.compute = build[b].compute \/ ~row.result)
  <2>1. \A a \in Builds : RowHonest(build'[a], replica')
    BY <1>1, <1>2, <1>4 DEF RowHonest
  <2>2. \A c \in Computes : ReplicaHonest(c)'
    BY <1>1, <1>2, <1>4 DEF ReplicaHonest
  <2> QED
    BY <1>1, <1>2, <1>4, <2>1, <2>2 DEF IInv, TypeOK
<1>5. CASE /\ row.result /\ row.status \notin {"none", "retired"} /\ row.compute = build[b].compute
           /\ replica[row.compute].st # "ready" /\ row.status # "ready"
           /\ build[b].result \/ replica[row.compute].st = "none"
           /\ \E s \in {"pending", "unhealthy"} :
                  replica' = [replica EXCEPT ![row.compute] = [st |-> s, of |-> b]]
  <2>1. PICK s \in {"pending", "unhealthy"} : replica' = [replica EXCEPT ![row.compute] = [st |-> s, of |-> b]]
    BY <1>5
  <2>2. row.compute \in Computes
    BY <1>3, <1>5
  <2>3. replica' \in [Computes -> Replica]
    <3>1. [st |-> s, of |-> b] \in Replica
      BY DEF Replica
    <3> QED BY <2>1, <2>2, <1>2, <3>1
  <2>4. /\ replica'[row.compute].st = s /\ replica'[row.compute].of = b
        /\ \A c \in Computes \ {row.compute} : replica'[c] = replica[c]
    BY <2>1, <2>2, <1>2
  <2>5. /\ replica[row.compute].of \in {b, None}
        /\ \A a \in Builds \ {b} : ~(build[a].result /\ build[a].compute = row.compute)
    BY <1>2, <1>5, <2>2, NoneApart DEF ReplicaHonest
  <2>6. \A a \in Builds : RowHonest(build'[a], replica')
    BY <1>1, <1>2, <1>3, <1>5, <2>4 DEF RowHonest
  <2>7. \A c \in Computes : ReplicaHonest(c)'
    <3>1. TAKE c \in Computes
    <3>2. CASE c = row.compute
      BY <3>2, <1>1, <1>2, <1>5, <2>4, <2>5 DEF ReplicaHonest
    <3>3. CASE c # row.compute
      BY <3>3, <1>1, <1>2, <1>5, <2>4 DEF ReplicaHonest
    <3> QED BY <3>2, <3>3
  <2> QED
    BY <1>1, <1>2, <2>3, <2>6, <2>7 DEF IInv, TypeOK
<1> QED BY <1>4, <1>5

\* What an invariant state says of one build.
LEMMA OneBuild ==
  ASSUME IInv, NEW b \in Builds
  PROVE  /\ Typed(build[b], job[b], run[b], late[b], vc[b])
         /\ Honest(build[b], job[b], run[b], late[b], vc[b])
         /\ RowHonest(build[b], replica)
         /\ job = [job EXCEPT ![b] = job[b]] /\ late = [late EXCEPT ![b] = late[b]]
         /\ vc = [vc EXCEPT ![b] = vc[b]] /\ build = [build EXCEPT ![b] = build[b]]
         /\ run = [run EXCEPT ![b] = run[b]]
BY DEF IInv, TypeOK, Typed

\* The links of a row to its source, its compute resource and its replica stay.
SameLinks(b, row) ==
    /\ row.compute = build[b].compute /\ row.source = build[b].source
    /\ row.status = build[b].status \/ (row.status \in Running /\ build[b].status \in Running)

\* A run goes on, or arms a call, with an honest row.
LEMMA GoesKeeps ==
  ASSUME IInv, NEW b \in Builds, NEW row, NEW r, NEW l, NEW v,
         Typed(row, job[b], r, l, v), Honest(row, job[b], r, l, v),
         late' = [late EXCEPT ![b] = l], vc' = [vc EXCEPT ![b] = v], placed' = placed,
         SameLinks(b, row), row.result = build[b].result,
         Save(b, row), Goes(b, r), UNCHANGED <<job, replica>>
  PROVE  IInv'
<1>1. Becomes(b, row, job[b], r, l, v)
  BY OneBuild DEF Becomes, Save, Goes
<1>2. /\ row.status # "none" => row.compute # None
      /\ row.status \in Running => row.source # None /\ replica[row.source].st = "ready"
      /\ row.status \notin {"none", "retired"} \/ row.status = build[b].status
      /\ build[b].status = "ready" => row.status = "ready"
  BY OneBuild DEF SameLinks, RowHonest, Running
<1> QED
  BY <1>1, <1>2, StepKeeps DEF SameLinks

\* A run returns an error with an honest row: the job is requeued or the build
\* fails.
LEMMA ReturnsKeeps ==
  ASSUME IInv, NEW b \in Builds, NEW row, NEW l, NEW v, NEW err,
         Typed(row, job[b], "step", l, v), Honest(row, job[b], "step", l, v),
         late' = [late EXCEPT ![b] = l], vc' = [vc EXCEPT ![b] = v], placed' = placed,
         SameLinks(b, row), row.status \notin {"none", "ready", "retired"},
         \/ row.result = build[b].result
         \/ /\ err = "task" /\ row.result /\ replica[row.compute].st = "none"
            /\ row.status # "retiring",
         Returns(b, row, err)
  PROVE  IInv'
<1>0. row \in Build /\ job[b] \in Jobs /\ l \in SUBSET Calls /\ v \in VMs
  BY DEF Typed
<1>1. /\ row.compute # None
      /\ row.status \in Running => row.source # None /\ replica[row.source].st = "ready"
      /\ build[b].status # "ready"
  BY OneBuild DEF SameLinks, RowHonest, Running
<1>2. CASE /\ err \in {"wait", "plain"} /\ job[b].tries < MaxRetries
           /\ Save(b, row)
           /\ job' = [job EXCEPT ![b].st = "pending", ![b].tries = @ + 1]
           /\ Goes(b, "idle")
           /\ UNCHANGED replica
  <2>1. PICK k : k = [job[b] EXCEPT !.st = "pending", !.tries = job[b].tries + 1]
    OBVIOUS
  <2>2. job[b].tries + 1 \in 0 .. MaxRetries
    BY <1>0, <1>2, JobType, BoundsAreNat
  <2>3. k \in Jobs /\ k.st = "pending" /\ k.cleanup = job[b].cleanup
    BY <1>0, <2>1, <2>2 DEF Jobs
  <2>4. job' = [job EXCEPT ![b] = k]
    BY <1>2, <2>1 DEF IInv, TypeOK, Jobs
  <2>5. Honest(row, k, "idle", l, v)
    BY <1>0, <2>3, HonestJob
  <2>6. Becomes(b, row, k, "idle", l, v) /\ Typed(row, k, "idle", l, v)
    BY <1>0, <1>2, <2>3, <2>4 DEF Becomes, Typed, Save, Goes
  <2> QED
    BY <1>1, <1>2, <2>5, <2>6, StepKeeps DEF SameLinks
<1>3. CASE /\ FailTemplateReplicaBuild(b, row, err)
           /\ Goes(b, "end")
           /\ UNCHANGED job
  <2>1. PICK f : f = Failed(row, err)
    OBVIOUS
  <2>2. /\ f \in Build /\ f.status \in {"retiring", "failed", "cleanup_required"}
        /\ f.status = "retiring" <=> row.status = "retiring"
        /\ f.result = row.result /\ f.source = row.source /\ f.compute = row.compute
    BY <1>0, <2>1, FailedRow
  <2>3. Honest(f, job[b], "end", l, v)
    BY <1>0, <2>1, HonestFails
  <2>4. Becomes(b, f, job[b], "end", l, v) /\ Typed(f, job[b], "end", l, v)
    BY <1>0, <1>3, <2>1, <2>2, OneBuild DEF Becomes, Typed, FailTemplateReplicaBuild, Goes
  <2>5. CASE row.result /\ row.status # "retiring" /\ replica[row.compute].st # "ready"
    <3>1. replica' = [replica EXCEPT ![f.compute] = [st |-> "unhealthy", of |-> b]]
      BY <1>3, <2>2, <2>5 DEF FailTemplateReplicaBuild
    <3>2. build[b].result \/ replica[f.compute].st = "none"
      BY <2>2, <2>5
    <3> QED
      BY <1>1, <2>2, <2>3, <2>4, <2>5, <3>1, <3>2, StepKeeps DEF SameLinks, Running
  <2>6. CASE ~(row.result /\ row.status # "retiring" /\ replica[row.compute].st # "ready")
    <3>1. replica' = replica /\ row.result = build[b].result
      BY <1>3, <2>6 DEF FailTemplateReplicaBuild
    <3> QED
      BY <1>1, <2>2, <2>3, <2>4, <3>1, StepKeeps DEF SameLinks, Running
  <2> QED BY <2>5, <2>6
<1> QED BY <1>2, <1>3 DEF Returns

-----------------------------------------------------------------------------
(***************************************************************************)
(* What a run writes.                                                       *)
(***************************************************************************)

\* A running build moves forward: all depends on what the new phase says.
LEMMA HonestForward ==
  ASSUME NEW row \in Build, NEW j \in Jobs, NEW l \in SUBSET Calls, NEW v \in VMs,
         Honest(row, j, "step", l, v), row.status \in Running,
         NEW new \in Build, NEW q \in Calls \cup {"step"},
         new.status \in Running, new.phase \in Forward, new.resume = row.resume,
         row.dest => new.dest, q \in Calls => new.phase = ArmedPhase(q),
         q \in Created => Unsent("step", l, v, q), PhaseIsTrue(new, q, l, v)
  PROVE  Honest(new, j, q, l, v)
<1>1. new.dest \in BOOLEAN /\ row.dest \in BOOLEAN /\ j.st = "active" /\ ~j.cleanup
  BY BuildType DEF Honest, RunFollows
<1>2. ArmedOnce(q, l, v)
  BY DEF Honest, ArmedOnce, Unsent, Created
<1>3. RunFollows(new, j, q, l, v)
  BY <1>1 DEF RunFollows, Running, Calls
<1>r. q # "residue_cleanup"
  BY Phase DEF Calls, Forward
<1>4. ResidueIsOver(new, q, l, v)
  BY <1>r, Phase DEF Honest, ResidueIsOver, Residual
<1>5. ResumeIsSafe(new, j, q, l, v)
  <2>1. q \in {"snapshot", "canary"} => new.dest
    BY Phase DEF PhaseIsTrue, BeforeClone, Calls
  <2>2. ~new.dest => Unsent(q, l, v, "snapshot") /\ Unsent(q, l, v, "canary")
    BY <2>1, <1>1 DEF Honest, ResumeIsSafe, Unsent
  <2> QED BY <2>2, <1>1 DEF Honest, ResumeIsSafe, Running
<1>6. AcceptedIsSound(new, j, q, v)
  BY DEF AcceptedIsSound, Running
<1> QED
  BY <1>2, <1>3, <1>4, <1>5, <1>6 DEF Honest

\* A cleanup moves on.
LEMMA HonestCleanup ==
  ASSUME NEW row \in Build, NEW j \in Jobs, NEW l \in SUBSET Calls, NEW v \in VMs,
         Honest(row, j, "step", l, v), j.cleanup, j.st = "active", row.status # "retired",
         NEW new \in Build, NEW q \in {"step", "canary_cleanup", "residue_cleanup"},
         new.status = row.status, new.resume = row.resume, new.cleaned = row.cleaned,
         row.dest => new.dest, q # "step" => new.phase = ArmedPhase(q),
         q = "residue_cleanup" => new.dest
  PROVE  Honest(new, j, q, l, v) /\ row.status \notin Running \cup {"none", "ready"}
<1>1. /\ new.dest \in BOOLEAN /\ row.dest \in BOOLEAN
      /\ row.status \notin Running \cup {"none", "ready"}
  BY BuildType DEF Honest, RunFollows, AcceptedIsSound
<1>2. ArmedOnce(q, l, v)
  BY DEF Honest, ArmedOnce, Created
<1>3. RunFollows(new, j, q, l, v)
  BY <1>1 DEF RunFollows, Calls
<1>4. ResidueIsOver(new, q, l, v)
  BY <1>1 DEF Honest, ResidueIsOver, Residual
<1>5. PhaseIsTrue(new, q, l, v)
  BY <1>1 DEF PhaseIsTrue
<1>6. ResumeIsSafe(new, j, q, l, v)
  BY <1>1 DEF Honest, ResumeIsSafe, Unsent
<1>7. AcceptedIsSound(new, j, q, v)
  BY <1>1 DEF AcceptedIsSound
<1> QED
  BY <1>1, <1>2, <1>3, <1>4, <1>5, <1>6, <1>7 DEF Honest

\* What a run in a forward phase may rely on.
LEMMA Executes ==
  ASSUME IInv, NEW b \in Builds, NEW phases, Executing(b, phases), phases \subseteq Forward
  PROVE  /\ run[b] = "step" /\ build[b].phase \in phases /\ build[b].status \in Running
         /\ ~job[b].cleanup /\ job[b].st = "active"
         /\ Typed(build[b], job[b], "step", late[b], vc[b])
         /\ Honest(build[b], job[b], "step", late[b], vc[b])
         /\ late' = [late EXCEPT ![b] = late[b]] /\ vc' = [vc EXCEPT ![b] = vc[b]] /\ placed' = placed
         /\ SameLinks(b, build[b]) /\ build[b].status \notin {"none", "ready", "retired"}
<1>1. /\ run[b] = "step" /\ build[b].phase \in phases /\ ~job[b].cleanup
      /\ UNCHANGED <<vc, late, placed>>
  BY DEF Executing, At
<1>2. build[b].status \in Running /\ job[b].st = "active"
  BY <1>1, OneBuild DEF Honest, RunFollows
<1> QED
  BY <1>1, <1>2, OneBuild DEF SameLinks, Running

\* A run that gives up where it is.
LEMMA GivesUp ==
  ASSUME IInv, NEW b \in Builds, NEW phases, Executing(b, phases), phases \subseteq Forward,
         NEW err, Returns(b, build[b], err)
  PROVE  IInv'
BY Executes, ReturnsKeeps

\* A run that goes on in a new phase.
LEMMA GoesForward ==
  ASSUME IInv, NEW b \in Builds, NEW phases, Executing(b, phases), phases \subseteq Forward,
         NEW new \in Build, NEW q \in Calls \cup {"step"},
         new.status \in Running, new.phase \in Forward, new.resume = build[b].resume,
         build[b].dest => new.dest, q \in Calls => new.phase = ArmedPhase(q),
         q \in Created => Unsent("step", late[b], vc[b], q), PhaseIsTrue(new, q, late[b], vc[b]),
         new.compute = build[b].compute, new.source = build[b].source, new.result = build[b].result,
         Save(b, new), Goes(b, q), UNCHANGED <<job, replica>>
  PROVE  IInv'
<1>1. Honest(new, job[b], q, late[b], vc[b])
  BY Executes, HonestForward DEF Typed
<1>2. Typed(new, job[b], q, late[b], vc[b])
  BY Executes DEF Typed
<1>3. SameLinks(b, new)
  BY Executes DEF SameLinks
<1> QED
  BY Executes, <1>1, <1>2, <1>3, GoesKeeps

-----------------------------------------------------------------------------
(***************************************************************************)
(* The actions of a run that builds.                                        *)
(***************************************************************************)

\* The clone is armed from pending, in which it was not sent.
LEMMA StartCloneKeeps ==
  ASSUME IInv, NEW b \in Builds, StartReplicaBuildClone(b) PROVE IInv'
<1>1. Executing(b, {"pending"}) /\ {"pending"} \subseteq Forward
  BY DEF StartReplicaBuildClone, Forward
<1>2. PICK row : row = build[b]
  OBVIOUS
<1>3. row \in Build /\ row.phase = "pending" /\ row.status \in Running
      /\ PhaseIsTrue(row, "step", late[b], vc[b])
  BY <1>1, <1>2, Executes DEF Typed, Honest
<1>4. ASSUME Arm(b, [row EXCEPT !.status = "running", !.phase = "clone_submitting"], "clone") PROVE IInv'
  <2>1. PICK new : new = [row EXCEPT !.status = "running", !.phase = "clone_submitting"]
    OBVIOUS
  <2>2. /\ new \in Build /\ new.status = "running" /\ new.phase = "clone_submitting"
        /\ new.resume = row.resume /\ new.dest = row.dest /\ new.result = row.result
        /\ new.compute = row.compute /\ new.source = row.source
    BY <1>3, <2>1 DEF Build, Active, Phases, Forward
  <2>3. Unsent("step", late[b], vc[b], "clone") /\ PhaseIsTrue(new, "clone", late[b], vc[b])
    BY <1>3, <2>2 DEF PhaseIsTrue, Unsent, Running, BeforeClone, BeforeSeal, BeforeCanary
  <2>4. Save(b, new) /\ Goes(b, "clone") /\ UNCHANGED <<job, replica>>
    BY <1>4, <2>1 DEF Arm
  <2> QED
    BY <1>1, <1>2, <2>2, <2>3, <2>4, Phase, GoesForward DEF Running, Forward, Calls
<1>5. ASSUME NEW err, Returns(b, build[b], err) PROVE IInv'
  BY <1>1, <1>5, GivesUp
<1> QED
  BY <1>2, <1>4, <1>5 DEF StartReplicaBuildClone

\* The clone was found: its identity is recorded.
LEMMA CloneFound ==
  ASSUME IInv, NEW b \in Builds, Executing(b, {"clone_submitting", "clone_submitted"}),
         FindReplicaBuildVM(b) \/ vc[b].clone = "exists",
         Advance(b, [build[b] EXCEPT !.dest = TRUE, !.phase = "validating"])
  PROVE  IInv'
<1>1. {"clone_submitting", "clone_submitted"} \subseteq Forward
  BY DEF Forward
<1>2. PICK row : row = build[b]
  OBVIOUS
<1>3. /\ row \in Build /\ row.phase \in {"clone_submitting", "clone_submitted"} /\ row.status \in Running
      /\ PhaseIsTrue(row, "step", late[b], vc[b]) /\ ResidueIsOver(row, "step", late[b], vc[b])
  BY <1>1, <1>2, Executes DEF Typed, Honest
<1>4. vc[b].clone = "exists"
  BY <1>3 DEF ResidueIsOver, Residual, FindReplicaBuildVM
<1>5. PICK new : new = [row EXCEPT !.dest = TRUE, !.phase = "validating"]
  OBVIOUS
<1>6. /\ new \in Build /\ new.status = row.status /\ new.phase = "validating"
      /\ new.resume = row.resume /\ new.dest /\ new.result = row.result
      /\ new.compute = row.compute /\ new.source = row.source
  BY <1>3, <1>5 DEF Build, Phases, Forward
<1>7. PhaseIsTrue(new, "step", late[b], vc[b])
  BY <1>3, <1>4, <1>6 DEF PhaseIsTrue, Unsent, BeforeClone, BeforeSeal, BeforeCanary
<1>8. Save(b, new) /\ Goes(b, "step") /\ UNCHANGED <<job, replica>>
  BY <1>2, <1>5 DEF Advance
<1> QED
  BY <1>1, <1>2, <1>3, <1>6, <1>7, <1>8, GoesForward DEF Forward, Calls, Created

\* After a lost answer the clone is looked for, never sent again.
LEMMA ReconcileCloneKeeps ==
  ASSUME IInv, NEW b \in Builds, ReconcileClone(b) PROVE IInv'
<1>1. /\ Executing(b, {"clone_submitting"}) /\ {"clone_submitting"} \subseteq Forward
      /\ Executing(b, {"clone_submitting", "clone_submitted"})
  BY DEF ReconcileClone, Forward, Executing, At
<1>2. ASSUME NEW err, Returns(b, build[b], err) PROVE IInv'
  BY <1>1, <1>2, GivesUp
<1> QED
  BY <1>1, <1>2, CloneFound DEF ReconcileClone, Unresolved

\* A task that failed and left its VM behind: what is known of it is recorded
\* with the failure.
LEMMA LeftBehind ==
  ASSUME IInv, NEW b \in Builds, Executing(b, {"clone_submitted"}), FindReplicaBuildVM(b),
         NEW new, NEW err,
         \/ new = [build[b] EXCEPT !.dest = TRUE]
         \/ /\ new = [[build[b] EXCEPT !.dest = TRUE] EXCEPT !.result = TRUE]
            /\ err = "task" /\ replica[build[b].compute].st = "none",
         Returns(b, new, err)
  PROVE  IInv'
<1>1. {"clone_submitted"} \subseteq Forward
  BY DEF Forward
<1>2. PICK row : row = build[b]
  OBVIOUS
<1>3. /\ row \in Build /\ row.phase = "clone_submitted" /\ row.status \in Running
      /\ PhaseIsTrue(row, "step", late[b], vc[b]) /\ ResidueIsOver(row, "step", late[b], vc[b])
      /\ Honest(row, job[b], "step", late[b], vc[b])
      /\ job[b] \in Jobs /\ late[b] \in SUBSET Calls /\ vc[b] \in VMs
  BY <1>1, <1>2, Executes DEF Typed, Honest
<1>4. vc[b].clone = "exists"
  BY <1>3 DEF ResidueIsOver, Residual, FindReplicaBuildVM
<1>5. /\ new \in Build /\ new.status = row.status /\ new.phase = row.phase
      /\ new.resume = row.resume /\ new.dest
      /\ new.compute = row.compute /\ new.source = row.source
      /\ \/ new.result = row.result
         \/ err = "task" /\ new.result /\ replica[new.compute].st = "none"
  <2>1. CASE new = [row EXCEPT !.dest = TRUE]
    BY <1>3, <2>1 DEF Build
  <2>2. CASE /\ new = [[row EXCEPT !.dest = TRUE] EXCEPT !.result = TRUE]
             /\ err = "task" /\ replica[row.compute].st = "none"
    BY <1>3, <2>2 DEF Build
  <2> QED BY <1>2, <2>1, <2>2
<1>6. PhaseIsTrue(new, "step", late[b], vc[b])
  BY <1>3, <1>4, <1>5 DEF PhaseIsTrue, Unsent, BeforeClone, BeforeSeal, BeforeCanary
<1>7. Honest(new, job[b], "step", late[b], vc[b])
  BY <1>1, <1>3, <1>5, <1>6, HonestForward DEF Calls, Created
<1>8. Typed(new, job[b], "step", late[b], vc[b]) /\ SameLinks(b, new)
      /\ new.status \notin {"none", "ready", "retired", "retiring"}
  BY <1>2, <1>3, <1>5 DEF Typed, SameLinks, Running
<1> QED
  BY <1>1, <1>2, <1>5, <1>7, <1>8, Executes, ReturnsKeeps

\* The clone's task ends, fails leaving a VM behind, or is not over.
LEMMA WaitCloneKeeps ==
  ASSUME IInv, NEW b \in Builds, WaitReplicaBuildCloneTask(b) PROVE IInv'
<1>1. /\ Executing(b, {"clone_submitted"}) /\ {"clone_submitted"} \subseteq Forward
      /\ Executing(b, {"clone_submitting", "clone_submitted"})
  BY DEF WaitReplicaBuildCloneTask, Forward, Executing, At
<1>2. ASSUME NEW err, Returns(b, build[b], err) PROVE IInv'
  BY <1>1, <1>2, GivesUp
<1> DEFINE dest == [build[b] EXCEPT !.dest = TRUE]
           found == [dest EXCEPT !.phase = "validating"]
<1>3. PICK r \in WaitTaskResult(b, "clone") :
             IF r = "ok" \/ (r = "deadline" /\ FindReplicaBuildVM(b)) THEN Advance(b, found)
             ELSE IF r = "deadline" THEN Returns(b, build[b], "wait")
             ELSE IF ~FindReplicaBuildVM(b) THEN Returns(b, build[b], "task")
             ELSE IF Exists(dest.compute) THEN Returns(b, dest, "plain")
             ELSE Returns(b, [dest EXCEPT !.result = TRUE], "task")
  BY DEF WaitReplicaBuildCloneTask
<1>4. found = [build[b] EXCEPT !.dest = TRUE, !.phase = "validating"] /\ dest.compute = build[b].compute
  <2>1. build[b] \in Build
    BY OneBuild DEF Typed
  <2>2. ASSUME NEW row \in Build
        PROVE  /\ [[row EXCEPT !.dest = TRUE] EXCEPT !.phase = "validating"] = [row EXCEPT !.dest = TRUE, !.phase = "validating"]
               /\ [row EXCEPT !.dest = TRUE].compute = row.compute
    BY DEF Build
  <2> QED BY <2>1, <2>2
<1>5. r = "ok" => vc[b].clone = "exists"
  BY <1>3, OneBuild, VMType DEF WaitTaskResult, Typed
<1>6. CASE r = "ok" \/ (r = "deadline" /\ FindReplicaBuildVM(b))
  BY <1>1, <1>3, <1>4, <1>5, <1>6, CloneFound
<1>7. ASSUME FindReplicaBuildVM(b), Returns(b, dest, "plain") PROVE IInv'
  BY <1>1, <1>7, LeftBehind
<1>8. ASSUME FindReplicaBuildVM(b), ~Exists(dest.compute), Returns(b, [dest EXCEPT !.result = TRUE], "task") PROVE IInv'
  <2>1. replica[build[b].compute].st = "none"
    BY <1>4, <1>8 DEF Exists
  <2> QED BY <1>1, <1>8, <2>1, LeftBehind
<1> HIDE DEF dest, found
<1> QED
  BY <1>2, <1>3, <1>6, <1>7, <1>8

\* The replica is reserved for the build if its compute resource is free.
LEMMA EnsurePendingKeeps ==
  ASSUME IInv, NEW b \in Builds, EnsurePendingReplicaForBuild(b) PROVE IInv'
<1>1. Executing(b, {"validating"}) /\ {"validating"} \subseteq Forward
  BY DEF EnsurePendingReplicaForBuild, Forward
<1>2. ASSUME NEW err, Returns(b, build[b], err) PROVE IInv'
  BY <1>1, <1>2, GivesUp
<1>3. ASSUME /\ ~Exists(build[b].compute)
             /\ build' = [build EXCEPT ![b].result = TRUE]
             /\ replica' = [replica EXCEPT ![build[b].compute] = [st |-> "pending", of |-> b]]
             /\ UNCHANGED <<job, run>>
      PROVE  IInv'
  <2>1. PICK row : row = build[b]
    OBVIOUS
  <2>2. /\ row \in Build /\ row.phase = "validating" /\ row.status \in Running
        /\ Honest(row, job[b], "step", late[b], vc[b])
        /\ job[b] \in Jobs /\ late[b] \in SUBSET Calls /\ vc[b] \in VMs
        /\ row.compute # None /\ row.source # None /\ replica[row.source].st = "ready"
    BY <1>1, <2>1, Executes, OneBuild DEF Typed, RowHonest
  <2>3. PICK new : new = [row EXCEPT !.result = TRUE]
    OBVIOUS
  <2>4. /\ new \in Build /\ new.status = row.status /\ new.phase = row.phase
        /\ new.resume = row.resume /\ new.dest = row.dest /\ new.result
        /\ new.compute = row.compute /\ new.source = row.source
    BY <2>2, <2>3 DEF Build
  <2>5. PhaseIsTrue(new, "step", late[b], vc[b])
    BY <2>2, <2>4 DEF Honest, PhaseIsTrue
  <2>6. Honest(new, job[b], "step", late[b], vc[b])
    BY <1>1, <2>2, <2>4, <2>5, HonestForward DEF Calls, Created
  <2>7. Becomes(b, new, job[b], "step", late[b], vc[b])
    <3>1. build' = [build EXCEPT ![b] = new]
      BY <1>3, <2>1, <2>3 DEF IInv, TypeOK, Build
    <3>2. run' = [run EXCEPT ![b] = "step"] /\ job' = [job EXCEPT ![b] = job[b]]
      BY <1>1, <1>3, OneBuild, Executes
    <3> QED BY <1>1, <3>1, <3>2, Executes DEF Becomes
  <2>8. Typed(new, job[b], "step", late[b], vc[b])
    BY <2>2, <2>4 DEF Typed
  <2>9. /\ placed' = placed /\ new.status \notin {"none", "retired", "ready"}
        /\ build[b].status # "ready" /\ new.compute # None /\ new.compute = build[b].compute
        /\ new.source # None /\ replica[new.source].st = "ready"
        /\ replica[new.compute].st = "none"
        /\ replica' = [replica EXCEPT ![new.compute] = [st |-> "pending", of |-> b]]
    BY <1>1, <1>3, <2>1, <2>2, <2>4, Executes DEF Exists, Running
  <2> QED
    BY <2>4, <2>6, <2>7, <2>8, <2>9, StepKeeps
<1> QED
  BY <1>2, <1>3 DEF EnsurePendingReplicaForBuild

\* The seal is armed after the checks, so the facts are exact from here on.
LEMMA StartSnapshotKeeps ==
  ASSUME IInv, NEW b \in Builds, StartReplicaBuildSnapshot(b) PROVE IInv'
<1>1. Executing(b, {"validating"}) /\ {"validating"} \subseteq Forward /\ build[b].result
  BY DEF StartReplicaBuildSnapshot, Forward
<1>2. ASSUME NEW err, Returns(b, build[b], err) PROVE IInv'
  BY <1>1, <1>2, GivesUp
<1>3. ASSUME ValidateReplicaBuildClone(b),
             Arm(b, [build[b] EXCEPT !.phase = "snapshot_submitting"], "snapshot")
      PROVE  IInv'
  <2>1. PICK row : row = build[b]
    OBVIOUS
  <2>2. /\ row \in Build /\ row.phase = "validating" /\ row.status \in Running /\ row.result
        /\ PhaseIsTrue(row, "step", late[b], vc[b]) /\ vc[b].facts \in Facts
    BY <1>1, <2>1, Executes, VMType DEF Typed, Honest
  <2>3. vc[b].facts = "exact"
    BY <1>3, <2>2, FactsNamed
       DEF ValidateReplicaBuildClone, ValidatePlacement, ValidateReplicaBuildHardware, ValidateReplicaBuildEncryption
  <2>4. PICK new : new = [row EXCEPT !.phase = "snapshot_submitting"]
    OBVIOUS
  <2>5. /\ new \in Build /\ new.status = row.status /\ new.phase = "snapshot_submitting"
        /\ new.resume = row.resume /\ new.dest = row.dest /\ new.result = row.result
        /\ new.compute = row.compute /\ new.source = row.source
    BY <2>2, <2>4 DEF Build, Phases, Forward
  <2>6. Unsent("step", late[b], vc[b], "snapshot") /\ PhaseIsTrue(new, "snapshot", late[b], vc[b])
    BY <2>2, <2>3, <2>5 DEF PhaseIsTrue, Unsent, BeforeClone, BeforeSeal, BeforeCanary
  <2>7. Save(b, new) /\ Goes(b, "snapshot") /\ UNCHANGED <<job, replica>>
    BY <1>3, <2>1, <2>4 DEF Arm
  <2> QED
    BY <1>1, <2>1, <2>2, <2>5, <2>6, <2>7, Phase, GoesForward DEF Forward, Calls
<1> QED
  BY <1>2, <1>3 DEF StartReplicaBuildSnapshot

\* The snapshot was found.
LEMMA SealedKeeps ==
  ASSUME IInv, NEW b \in Builds, Executing(b, {"snapshot_submitting", "snapshot_submitted"}),
         vc[b].snapshot = "exists", Sealed(b)
  PROVE  IInv'
<1>1. {"snapshot_submitting", "snapshot_submitted"} \subseteq Forward
  BY DEF Forward
<1>2. PICK row : row = build[b]
  OBVIOUS
<1>3. /\ row \in Build /\ row.phase \in {"snapshot_submitting", "snapshot_submitted"} /\ row.status \in Running
      /\ PhaseIsTrue(row, "step", late[b], vc[b])
  BY <1>1, <1>2, Executes DEF Typed, Honest
<1>4. PICK new : new = [row EXCEPT !.snapshot = TRUE, !.phase = "canary_prepared"]
  OBVIOUS
<1>5. /\ new \in Build /\ new.status = row.status /\ new.phase = "canary_prepared"
      /\ new.resume = row.resume /\ new.dest = row.dest /\ new.result = row.result
      /\ new.compute = row.compute /\ new.source = row.source
  BY <1>3, <1>4 DEF Build, Phases, Forward
<1>6. PhaseIsTrue(new, "step", late[b], vc[b])
  BY <1>3, <1>5 DEF PhaseIsTrue, BeforeClone, BeforeSeal, BeforeCanary
<1>7. Save(b, new) /\ Goes(b, "step") /\ UNCHANGED <<job, replica>>
  BY <1>2, <1>4 DEF Sealed, Advance
<1> QED
  BY <1>1, <1>2, <1>3, <1>5, <1>6, <1>7, GoesForward DEF Forward, Calls, Created

\* After a lost answer the seal is looked for.
LEMMA ReconcileSnapshotKeeps ==
  ASSUME IInv, NEW b \in Builds, ReconcileSnapshot(b) PROVE IInv'
<1>1. /\ Executing(b, {"snapshot_submitting"}) /\ {"snapshot_submitting"} \subseteq Forward
      /\ Executing(b, {"snapshot_submitting", "snapshot_submitted"})
  BY DEF ReconcileSnapshot, Forward, Executing, At
<1>2. ASSUME NEW err, Returns(b, build[b], err) PROVE IInv'
  BY <1>1, <1>2, GivesUp
<1> QED
  BY <1>1, <1>2, SealedKeeps DEF ReconcileSnapshot, Unresolved, FindReplicaSnapshot

\* The seal is found, or the run gives up.
LEMMA WaitSnapshotKeeps ==
  ASSUME IInv, NEW b \in Builds, WaitReplicaBuildSnapshotTask(b) PROVE IInv'
<1>1. /\ Executing(b, {"snapshot_submitted"}) /\ {"snapshot_submitted"} \subseteq Forward
      /\ Executing(b, {"snapshot_submitting", "snapshot_submitted"})
  BY DEF WaitReplicaBuildSnapshotTask, Forward, Executing, At
<1>2. ASSUME NEW err, Returns(b, build[b], err) PROVE IInv'
  BY <1>1, <1>2, GivesUp
<1>3. PICK r \in WaitTaskResult(b, "snapshot") :
          IF r = "ok" \/ FindReplicaSnapshot(b) THEN Sealed(b)
          ELSE Returns(b, build[b], IF r = "failed" THEN "task" ELSE "wait")
  BY DEF WaitReplicaBuildSnapshotTask
<1>4. r = "ok" \/ FindReplicaSnapshot(b) => vc[b].snapshot = "exists"
  BY <1>3, OneBuild, VMType DEF WaitTaskResult, Typed, FindReplicaSnapshot
<1> QED
  BY <1>1, <1>2, <1>3, <1>4, SealedKeeps

\* The canary is armed from canary_prepared, in which it was not sent.
LEMMA StartCanaryKeeps ==
  ASSUME IInv, NEW b \in Builds, StartReplicaBuildCanary(b) PROVE IInv'
<1>1. Executing(b, {"canary_prepared"}) /\ {"canary_prepared"} \subseteq Forward
  BY DEF StartReplicaBuildCanary, Forward
<1>2. ASSUME NEW err, Returns(b, build[b], err) PROVE IInv'
  BY <1>1, <1>2, GivesUp
<1>3. ASSUME Arm(b, [build[b] EXCEPT !.phase = "canary_submitting"], "canary") PROVE IInv'
  <2>1. PICK row : row = build[b]
    OBVIOUS
  <2>2. /\ row \in Build /\ row.phase = "canary_prepared" /\ row.status \in Running
        /\ PhaseIsTrue(row, "step", late[b], vc[b])
    BY <1>1, <2>1, Executes DEF Typed, Honest
  <2>4. PICK new : new = [row EXCEPT !.phase = "canary_submitting"]
    OBVIOUS
  <2>5. /\ new \in Build /\ new.status = row.status /\ new.phase = "canary_submitting"
        /\ new.resume = row.resume /\ new.dest = row.dest /\ new.result = row.result
        /\ new.compute = row.compute /\ new.source = row.source
    BY <2>2, <2>4 DEF Build, Phases, Forward
  <2>6. Unsent("step", late[b], vc[b], "canary") /\ PhaseIsTrue(new, "canary", late[b], vc[b])
    BY <2>2, <2>5 DEF PhaseIsTrue, Unsent, BeforeClone, BeforeSeal, BeforeCanary
  <2>7. Save(b, new) /\ Goes(b, "canary") /\ UNCHANGED <<job, replica>>
    BY <1>3, <2>1, <2>4 DEF Arm
  <2> QED
    BY <1>1, <2>1, <2>2, <2>5, <2>6, <2>7, Phase, GoesForward DEF Forward, Calls
<1> QED
  BY <1>2, <1>3 DEF StartReplicaBuildCanary

\* A row of a running build past its canary changes within the phases that
\* speak of nothing but the seal.
LEMMA PastCanary ==
  ASSUME IInv, NEW b \in Builds, NEW phases, Executing(b, phases),
         phases \subseteq {"canary_submitting", "canary_submitted", "cleanup_prepared", "cleanup_submitting", "cleanup_submitted"},
         NEW new \in Build, NEW q \in {"step", "canary_cleanup"},
         new.status = build[b].status, new.resume = build[b].resume, new.dest = build[b].dest,
         new.result = build[b].result, new.compute = build[b].compute, new.source = build[b].source,
         \/ /\ q = "step"
            /\ \/ new.phase = "cleanup_prepared"
               \/ new.phase = "finalizing" /\ vc[b].canary = "gone"
         \/ q = "canary_cleanup" /\ new.phase = "cleanup_submitting",
         Save(b, new), Goes(b, q), UNCHANGED <<job, replica>>
  PROVE  IInv'
<1>1. phases \subseteq Forward
  BY DEF Forward
<1>3. /\ build[b].phase \in phases /\ build[b].status \in Running
      /\ PhaseIsTrue(build[b], "step", late[b], vc[b])
  BY <1>1, Executes DEF Typed, Honest
<1>6. PhaseIsTrue(new, q, late[b], vc[b])
  BY <1>3 DEF PhaseIsTrue, BeforeClone, BeforeSeal, BeforeCanary
<1> QED
  BY <1>1, <1>3, <1>6, Phase, GoesForward DEF Forward, Calls, Created

\* The canary's identity is saved.
LEMMA CanaryFoundKeeps ==
  ASSUME IInv, NEW b \in Builds, Executing(b, {"canary_submitting", "canary_submitted"}), CanaryFound(b)
  PROVE  IInv'
<1>1. build[b] \in Build
  BY OneBuild DEF Typed
<1>4. PICK new : new = [build[b] EXCEPT !.canary = TRUE, !.phase = "cleanup_prepared"]
  OBVIOUS
<1>5. /\ new \in Build /\ new.status = build[b].status /\ new.phase = "cleanup_prepared"
      /\ new.resume = build[b].resume /\ new.dest = build[b].dest /\ new.result = build[b].result
      /\ new.compute = build[b].compute /\ new.source = build[b].source
  BY <1>1, <1>4 DEF Build, Phases, Forward
<1>7. Save(b, new) /\ Goes(b, "step") /\ UNCHANGED <<job, replica>>
  BY <1>4 DEF CanaryFound, Advance
<1> QED
  BY <1>5, <1>7, PastCanary

\* After a lost answer the canary is looked for.
LEMMA ReconcileCanaryKeeps ==
  ASSUME IInv, NEW b \in Builds, ReconcileCanary(b) PROVE IInv'
<1>1. /\ Executing(b, {"canary_submitting"}) /\ {"canary_submitting"} \subseteq Forward
      /\ Executing(b, {"canary_submitting", "canary_submitted"})
  BY DEF ReconcileCanary, Forward, Executing, At
<1>2. ASSUME NEW err, Returns(b, build[b], err) PROVE IInv'
  BY <1>1, <1>2, GivesUp
<1> QED
  BY <1>1, <1>2, CanaryFoundKeeps DEF ReconcileCanary, Unresolved

\* The canary is found, or the run gives up.
LEMMA WaitCanaryKeeps ==
  ASSUME IInv, NEW b \in Builds, WaitReplicaBuildCanaryTask(b) PROVE IInv'
<1>1. /\ Executing(b, {"canary_submitted"}) /\ {"canary_submitted"} \subseteq Forward
      /\ Executing(b, {"canary_submitting", "canary_submitted"})
  BY DEF WaitReplicaBuildCanaryTask, Forward, Executing, At
<1>2. ASSUME NEW err, Returns(b, build[b], err) PROVE IInv'
  BY <1>1, <1>2, GivesUp
<1> QED
  BY <1>1, <1>2, CanaryFoundKeeps DEF WaitReplicaBuildCanaryTask

\* The canary's destruction is armed, or the canary is gone already.
LEMMA StartCanaryCleanupKeeps ==
  ASSUME IInv, NEW b \in Builds, StartReplicaBuildCanaryCleanup(b) PROVE IInv'
<1>1. /\ Executing(b, {"cleanup_prepared", "cleanup_submitting"})
      /\ {"cleanup_prepared", "cleanup_submitting"} \subseteq Forward
  BY DEF StartReplicaBuildCanaryCleanup, Forward
<1>2. ASSUME NEW err, Returns(b, build[b], err) PROVE IInv'
  BY <1>1, <1>2, GivesUp
<1>3. build[b] \in Build /\ vc[b]["canary"] = vc[b].canary
  BY OneBuild, VMType DEF Typed
<1>4. ASSUME Arm(b, [build[b] EXCEPT !.phase = "cleanup_submitting"], "canary_cleanup") PROVE IInv'
  <2>1. PICK new : new = [build[b] EXCEPT !.phase = "cleanup_submitting"]
    OBVIOUS
  <2>2. /\ new \in Build /\ new.status = build[b].status /\ new.phase = "cleanup_submitting"
        /\ new.resume = build[b].resume /\ new.dest = build[b].dest /\ new.result = build[b].result
        /\ new.compute = build[b].compute /\ new.source = build[b].source
    BY <1>3, <2>1 DEF Build, Phases, Forward
  <2>3. Save(b, new) /\ Goes(b, "canary_cleanup") /\ UNCHANGED <<job, replica>>
    BY <1>4, <2>1 DEF Arm
  <2> QED
    BY <1>1, <2>2, <2>3, PastCanary
<1>5. ASSUME ~ValidateReplicaBuildMarker(b, "canary"),
             Advance(b, [build[b] EXCEPT !.cdone = TRUE, !.phase = "finalizing"])
      PROVE  IInv'
  <2>1. PICK new : new = [build[b] EXCEPT !.cdone = TRUE, !.phase = "finalizing"]
    OBVIOUS
  <2>2. /\ new \in Build /\ new.status = build[b].status /\ new.phase = "finalizing"
        /\ new.resume = build[b].resume /\ new.dest = build[b].dest /\ new.result = build[b].result
        /\ new.compute = build[b].compute /\ new.source = build[b].source
    BY <1>3, <2>1 DEF Build, Phases, Forward
  <2>3. Save(b, new) /\ Goes(b, "step") /\ UNCHANGED <<job, replica>> /\ vc[b].canary = "gone"
    BY <1>3, <1>5, <2>1 DEF Advance, ValidateReplicaBuildMarker
  <2> QED
    BY <1>1, <2>2, <2>3, PastCanary
<1> QED
  BY <1>2, <1>4, <1>5 DEF StartReplicaBuildCanaryCleanup

\* finalizing is entered only with the canary gone.
LEMMA WaitCanaryCleanupKeeps ==
  ASSUME IInv, NEW b \in Builds, WaitCanaryCleanup(b) PROVE IInv'
<1>1. Executing(b, {"cleanup_submitted"}) /\ {"cleanup_submitted"} \subseteq Forward
  BY DEF WaitCanaryCleanup, Forward
<1>2. ASSUME NEW err, Returns(b, build[b], err) PROVE IInv'
  BY <1>1, <1>2, GivesUp
<1>3. build[b] \in Build /\ vc[b]["canary"] = vc[b].canary
  BY OneBuild, VMType DEF Typed
<1>4. ASSUME vc[b]["canary"] = "gone", Advance(b, [build[b] EXCEPT !.cdone = TRUE, !.phase = "finalizing"])
      PROVE  IInv'
  <2>1. PICK new : new = [build[b] EXCEPT !.cdone = TRUE, !.phase = "finalizing"]
    OBVIOUS
  <2>2. /\ new \in Build /\ new.status = build[b].status /\ new.phase = "finalizing"
        /\ new.resume = build[b].resume /\ new.dest = build[b].dest /\ new.result = build[b].result
        /\ new.compute = build[b].compute /\ new.source = build[b].source
    BY <1>3, <2>1 DEF Build, Phases, Forward
  <2>3. Save(b, new) /\ Goes(b, "step") /\ UNCHANGED <<job, replica>> /\ vc[b].canary = "gone"
    BY <1>3, <1>4, <2>1 DEF Advance
  <2> QED
    BY <1>1, <2>2, <2>3, PastCanary
<1>5. ASSUME Returns(b, [build[b] EXCEPT !.phase = "cleanup_prepared"], "wait") PROVE IInv'
  <2>1. PICK new : new = [build[b] EXCEPT !.phase = "cleanup_prepared"]
    OBVIOUS
  <2>2. /\ new \in Build /\ new.status = build[b].status /\ new.phase = "cleanup_prepared"
        /\ new.resume = build[b].resume /\ new.dest = build[b].dest /\ new.result = build[b].result
        /\ new.compute = build[b].compute /\ new.source = build[b].source
    BY <1>3, <2>1 DEF Build, Phases, Forward
  <2>3. /\ build[b].phase = "cleanup_submitted" /\ build[b].status \in Running
        /\ Honest(build[b], job[b], "step", late[b], vc[b])
        /\ Typed(build[b], job[b], "step", late[b], vc[b])
    BY <1>1, Executes
  <2>4. PhaseIsTrue(new, "step", late[b], vc[b])
    BY <2>2, <2>3 DEF Honest, PhaseIsTrue, BeforeClone, BeforeSeal, BeforeCanary
  <2>5. Honest(new, job[b], "step", late[b], vc[b])
    BY <2>2, <2>3, <2>4, HonestForward DEF Typed, Calls, Created, Forward
  <2>6. Typed(new, job[b], "step", late[b], vc[b]) /\ SameLinks(b, new)
        /\ new.status \notin {"none", "ready", "retired"}
    BY <2>2, <2>3 DEF Typed, SameLinks, Running
  <2> QED
    <3>1. Returns(b, new, "wait")
      BY <1>5, <2>1
    <3> QED BY <1>1, <2>2, <2>5, <2>6, <3>1, Executes, ReturnsKeeps
<1> QED
  BY <1>2, <1>4, <1>5 DEF WaitCanaryCleanup, DestroyWaited

\* The replica at c changes its status and keeps its owner.
LEMMA Restated ==
  ASSUME replica \in [Computes -> Replica], NEW c \in Computes,
         NEW s \in {"ready", "disabled"}, replica' = [replica EXCEPT ![c].st = s]
  PROVE  /\ replica' \in [Computes -> Replica]
         /\ replica'[c].st = s /\ replica'[c].of = replica[c].of
         /\ \A d \in Computes \ {c} : replica'[d] = replica[d]
<1>1. PICK n : n = [replica[c] EXCEPT !.st = s]
  OBVIOUS
<1>2. replica' = [replica EXCEPT ![c] = n]
  BY <1>1 DEF Replica
<1>3. replica[c] \in Replica
  OBVIOUS
<1>4. n \in Replica /\ n.st = s /\ n.of = replica[c].of
  BY <1>1, <1>3 DEF Replica
<1> QED BY <1>2, <1>4

\* Replica and build become ready together, with all that ready promises.
LEMMA FinalizeKeeps ==
  ASSUME IInv, NEW b \in Builds, FinalizeTemplateReplicaBuild(b) PROVE IInv'
<1>1. Executing(b, {"finalizing"}) /\ {"finalizing"} \subseteq Forward
  BY DEF FinalizeTemplateReplicaBuild, Forward
<1>2. ASSUME NEW err, Returns(b, build[b], err) PROVE IInv'
  BY <1>1, <1>2, GivesUp
<1>3. ASSUME /\ AnchorReady(b) /\ replica[build[b].compute].st = "pending"
             /\ replica' = [replica EXCEPT ![build[b].compute].st = "ready"]
             /\ Save(b, [build[b] EXCEPT !.status = "ready", !.phase = "ready", !.code = ""])
             /\ Goes(b, "end") /\ UNCHANGED job
      PROVE  IInv'
  <2>1. PICK row : row = build[b]
    OBVIOUS
  <2>2. PICK c : c = row.compute
    OBVIOUS
  <2>3. /\ row \in Build /\ row.phase = "finalizing" /\ row.status \in Running
        /\ Honest(row, job[b], "step", late[b], vc[b])
        /\ job[b] \in Jobs /\ late[b] \in SUBSET Calls /\ vc[b] \in VMs
        /\ row.compute # None /\ row.source # None /\ job[b].st = "active" /\ ~job[b].cleanup
    BY <1>1, <2>1, Executes, OneBuild DEF Typed, RowHonest
  <2>4. row.result /\ row.dest /\ c \in Computes
    BY <2>2, <2>3, BuildType DEF Honest, PhaseIsTrue, BeforeClone, BeforeSeal
  <2>5. PICK new : new = [row EXCEPT !.status = "ready", !.phase = "ready", !.code = ""]
    OBVIOUS
  <2>6. /\ new \in Build /\ new.status = "ready" /\ new.phase = "ready"
        /\ new.resume = row.resume /\ new.dest = row.dest /\ new.result = row.result
        /\ new.compute = row.compute /\ new.source = row.source /\ new.cleaned = row.cleaned
    BY <2>3, <2>5 DEF Build, Phases
  <2>7. Honest(new, job[b], "end", late[b], vc[b])
    <3>1. ArmedOnce("end", late[b], vc[b])
      BY <2>3 DEF Honest, ArmedOnce, Created
    <3>2. RunFollows(new, job[b], "end", late[b], vc[b])
      BY <2>3, <2>6 DEF RunFollows, Calls, Running, Forward
    <3>3. ResidueIsOver(new, "end", late[b], vc[b])
      BY <2>3, <2>6 DEF Honest, ResidueIsOver, Residual
    <3>4. PhaseIsTrue(new, "end", late[b], vc[b])
      BY <2>6 DEF PhaseIsTrue, Running
    <3>5. ResumeIsSafe(new, job[b], "end", late[b], vc[b])
      BY <2>3, <2>4, <2>6 DEF Honest, ResumeIsSafe
    <3>6. AcceptedIsSound(new, job[b], "end", vc[b])
      BY <2>3, <2>4, <2>6 DEF Honest, AcceptedIsSound, PhaseIsTrue, Calls, BeforeClone, BeforeSeal
    <3> QED BY <3>1, <3>2, <3>3, <3>4, <3>5, <3>6 DEF Honest
  <2>8. Becomes(b, new, job[b], "end", late[b], vc[b]) /\ Typed(new, job[b], "end", late[b], vc[b])
    BY <1>1, <1>3, <2>1, <2>3, <2>5, <2>6, Executes, OneBuild DEF Becomes, Typed, Save, Goes
  <2>9. /\ build' \in [Builds -> Build] /\ job' \in [Builds -> Jobs]
        /\ run' \in [Builds -> Calls \cup {"idle", "step", "end"}]
        /\ late' \in [Builds -> SUBSET Calls] /\ vc' \in [Builds -> VMs]
        /\ build'[b] = new
        /\ \A a \in Builds \ {b} : build'[a] = build[a]
        /\ \A a \in Builds : Honest(build'[a], job'[a], run'[a], late'[a], vc'[a])
    BY <2>7, <2>8, OthersHonest
  <2>10. /\ \A a \in Builds : build[a] \in Build /\ RowHonest(build[a], replica)
         /\ \A d \in Computes : ReplicaHonest(d)
         /\ replica \in [Computes -> Replica] /\ placed \subseteq Computes
         /\ \A d \in Computes : replica[d].of \in Builds \cup {None}
    BY DEF IInv, TypeOK, Replica
  <2>11. /\ replica' \in [Computes -> Replica]
         /\ replica'[c].st = "ready" /\ replica'[c].of = replica[c].of
         /\ \A d \in Computes \ {c} : replica'[d] = replica[d]
    BY <1>3, <2>1, <2>2, <2>4, <2>10, Restated
  <2>12. replica[c].of = b
    BY <2>1, <2>2, <2>4, <2>10 DEF ReplicaHonest
  <2>13. \A a \in Builds : build[a].source \in Computes \cup {None}
    BY <2>10, BuildType
  <2>14. \A a \in Builds : RowHonest(build'[a], replica')
    BY <2>1, <2>3, <2>6, <2>9, <2>10, <2>11, <2>13 DEF RowHonest, Running
  <2>15. \A d \in Computes : ReplicaHonest(d)'
    <3>1. TAKE d \in Computes
    <3>2. CASE d = c
      <4>1. \A a \in Builds : replica'[c].of = a <=> build'[a].result /\ build'[a].compute = c
        <5>1. \A a \in Builds : replica[c].of = a <=> build[a].result /\ build[a].compute = c
          BY <2>4, <2>10 DEF ReplicaHonest
        <5>2. TAKE a \in Builds
        <5>3. CASE a = b
          BY <5>3, <2>2, <2>4, <2>6, <2>9, <2>11, <2>12
        <5>4. CASE a # b
          BY <5>1, <5>4, <2>9, <2>11, <2>12
        <5> QED BY <5>3, <5>4
      <4>2. build'[replica'[c].of].status = "ready"
        BY <2>6, <2>9, <2>11, <2>12
      <4> QED BY <3>2, <2>11, <4>1, <4>2 DEF ReplicaHonest
    <3>3. CASE d # c
      BY <3>3, <1>1, Executes, <2>1, <2>2, <2>6, <2>9, <2>10, <2>11 DEF ReplicaHonest
    <3> QED BY <3>2, <3>3
  <2>16. placed' \subseteq Computes
    BY <1>1, <2>10, Executes
  <2> QED
    BY <2>9, <2>11, <2>14, <2>15, <2>16 DEF IInv, TypeOK
<1> QED
  BY <1>2, <1>3 DEF FinalizeTemplateReplicaBuild

\* A run of a build that is over changes nothing, or fails it.
LEMMA RunEndedKeeps ==
  ASSUME IInv, NEW b \in Builds, RunEndedBuild(b) PROVE IInv'
<1>1. /\ run[b] = "step" /\ late' = [late EXCEPT ![b] = late[b]] /\ vc' = [vc EXCEPT ![b] = vc[b]]
      /\ placed' = placed
      /\ Typed(build[b], job[b], "step", late[b], vc[b])
      /\ Honest(build[b], job[b], "step", late[b], vc[b])
      /\ SameLinks(b, build[b])
  BY OneBuild DEF RunEndedBuild, SameLinks
<1>2. build[b].status # "none" /\ (build[b].status = "ready" => build[b].phase = "ready" /\ build[b].source # None)
  BY <1>1 DEF Honest, RunFollows, AcceptedIsSound
<1>3. CASE build[b].status \in {"ready", "retired"} /\ Goes(b, "end") /\ UNCHANGED <<build, job, replica>>
  <2>1. Honest(build[b], job[b], "end", late[b], vc[b])
    <3>1. /\ build[b] \in Build /\ job[b] \in Jobs /\ late[b] \in SUBSET Calls /\ vc[b] \in VMs
          /\ job[b].st = "active"
      BY <1>1 DEF Typed, Honest, RunFollows
    <3>2. ArmedOnce("end", late[b], vc[b])
      BY <1>1 DEF Honest, ArmedOnce, Created
    <3>3. RunFollows(build[b], job[b], "end", late[b], vc[b])
      BY <1>1, <1>2, <3>1 DEF Honest, RunFollows, Calls
    <3>4. ResidueIsOver(build[b], "end", late[b], vc[b])
      BY <1>1 DEF Honest, ResidueIsOver, Residual
    <3>5. PhaseIsTrue(build[b], "end", late[b], vc[b])
      BY <1>1 DEF Honest, PhaseIsTrue, Unsent
    <3>6. ResumeIsSafe(build[b], job[b], "end", late[b], vc[b])
      BY <1>1, <1>3 DEF Honest, ResumeIsSafe, Unsent
    <3>7. AcceptedIsSound(build[b], job[b], "end", vc[b])
      BY <1>1 DEF Honest, AcceptedIsSound, Calls
    <3> QED BY <3>2, <3>3, <3>4, <3>5, <3>6, <3>7 DEF Honest
  <2>2. Typed(build[b], job[b], "end", late[b], vc[b]) /\ Save(b, build[b])
    BY <1>1, <1>3, OneBuild DEF Typed, Save
  <2> QED
    BY <1>1, <1>3, <2>1, <2>2, GoesKeeps
<1>4. ASSUME build[b].status # "retired",
             \/ build[b].source = None
             \/ build[b].phase \in {"failed", "cleanup_required"} \cup Residue,
             Returns(b, build[b], "refused")
      PROVE  IInv'
  <2>1. build[b].status \notin {"none", "ready", "retired"}
    BY <1>2, <1>4 DEF Residue
  <2> QED
    BY <1>1, <1>4, <2>1, ReturnsKeeps
<1>5. build[b].status = "retired" => build[b].phase \notin {"failed", "cleanup_required"} \cup Residue
  BY <1>1 DEF Honest, RunFollows, Residue
<1> QED
  BY <1>3, <1>4, <1>5 DEF RunEndedBuild

-----------------------------------------------------------------------------
(***************************************************************************)
(* Calls, tasks and jobs.                                                   *)
(***************************************************************************)

\* What a creating call leaves in vCenter.
LEMMA SubmitFacts ==
  ASSUME IInv, NEW b \in Builds, NEW x \in Created, vc[b].submits[x] = 0, Submit(b, x)
  PROVE  \E w \in VMs : /\ vc' = [vc EXCEPT ![b] = w]
                        /\ w[x] = "running" /\ w.submits[x] = 1 /\ w.facts = vc[b].facts
                        /\ \A y \in Created \ {x} : w[y] = vc[b][y] /\ w.submits[y] = vc[b].submits[y]
<1>1. vc \in [Builds -> VMs] /\ vc[b] \in VMs /\ vc[b].submits \in [Created -> 0 .. 2]
  BY VMType DEF IInv, TypeOK
<1>2. PICK s : s = [vc[b].submits EXCEPT ![x] = 1]
  OBVIOUS
<1>3. s \in [Created -> 0 .. 2] /\ s[x] = 1 /\ \A y \in Created \ {x} : s[y] = vc[b].submits[y]
  BY <1>1, <1>2, Bump
<1>4. s = [vc[b].submits EXCEPT ![x] = vc[b].submits[x] + 1]
  BY <1>1, <1>2
<1>5. CASE x = "clone"
  <2>1. PICK w : w = [vc[b] EXCEPT !.clone = "running", !.submits = s]
    OBVIOUS
  <2>2. vc' = [vc EXCEPT ![b] = [vc[b] EXCEPT !.clone = "running",
                !.submits = [vc[b].submits EXCEPT !["clone"] = vc[b].submits["clone"] + 1]]]
    BY <1>1, <1>5 DEF VMs, Submit
  <2>3. vc' = [vc EXCEPT ![b] = w]
    BY <1>4, <1>5, <2>1, <2>2
  <2>4. w \in VMs /\ w.clone = "running" /\ w.canary = vc[b].canary /\ w.snapshot = vc[b].snapshot
        /\ w.facts = vc[b].facts /\ w.submits = s
    BY <1>1, <1>3, <2>1 DEF VMs, VMStates
  <2> QED
    BY <1>1, <1>3, <1>5, <2>3, <2>4, VMType DEF Created
<1>6. CASE x = "snapshot"
  <2>1. PICK w : w = [vc[b] EXCEPT !.snapshot = "running", !.submits = s]
    OBVIOUS
  <2>2. vc' = [vc EXCEPT ![b] = [vc[b] EXCEPT !.snapshot = "running",
                !.submits = [vc[b].submits EXCEPT !["snapshot"] = vc[b].submits["snapshot"] + 1]]]
    BY <1>1, <1>6 DEF VMs, Submit
  <2>3. vc' = [vc EXCEPT ![b] = w]
    BY <1>4, <1>6, <2>1, <2>2
  <2>4. w \in VMs /\ w.snapshot = "running" /\ w.canary = vc[b].canary /\ w.clone = vc[b].clone
        /\ w.facts = vc[b].facts /\ w.submits = s
    BY <1>1, <1>3, <2>1 DEF VMs
  <2> QED
    BY <1>1, <1>3, <1>6, <2>3, <2>4, VMType DEF Created
<1>7. CASE x = "canary"
  <2>1. PICK w : w = [vc[b] EXCEPT !.canary = "running", !.submits = s]
    OBVIOUS
  <2>2. vc' = [vc EXCEPT ![b] = [vc[b] EXCEPT !.canary = "running",
                !.submits = [vc[b].submits EXCEPT !["canary"] = vc[b].submits["canary"] + 1]]]
    BY <1>1, <1>7 DEF VMs, Submit
  <2>3. vc' = [vc EXCEPT ![b] = w]
    BY <1>4, <1>7, <2>1, <2>2
  <2>4. w \in VMs /\ w.canary = "running" /\ w.snapshot = vc[b].snapshot /\ w.clone = vc[b].clone
        /\ w.facts = vc[b].facts /\ w.submits = s
    BY <1>1, <1>3, <2>1 DEF VMs, VMStates
  <2> QED
    BY <1>1, <1>3, <1>7, <2>3, <2>4, VMType DEF Created
<1> QED BY <1>5, <1>6, <1>7 DEF Created

\* What a destroy call leaves in vCenter.
LEMMA DestroyFacts ==
  ASSUME IInv, NEW b \in Builds, NEW x \in {"clone", "canary"}, Destroy(b, x)
  PROVE  \E w \in VMs : /\ vc' = [vc EXCEPT ![b] = w]
                        /\ w.submits = vc[b].submits /\ w.facts = vc[b].facts /\ w.snapshot = vc[b].snapshot
                        /\ x = "canary" => w.clone = vc[b].clone
                        /\ x = "clone" => w.canary = vc[b].canary
                        /\ \/ w.clone = vc[b].clone
                           \/ vc[b].clone = "exists" /\ w.clone = "destroying"
                        /\ \/ w.canary = vc[b].canary
                           \/ vc[b].canary = "exists" /\ w.canary = "destroying"
<1>1. vc \in [Builds -> VMs] /\ vc[b] \in VMs /\ vc[b].clone \in VMStates /\ vc[b].canary \in VMStates
  BY VMType DEF IInv, TypeOK
<1>2. CASE x = "clone"
  <2>1. PICK s \in VMStates : s = IF vc[b].clone = "exists" THEN "destroying" ELSE vc[b].clone
    BY <1>1 DEF VMStates
  <2>2. PICK w : w = [vc[b] EXCEPT !.clone = s]
    OBVIOUS
  <2>3. vc' = [vc EXCEPT ![b] = w]
    BY <1>1, <1>2, <2>1, <2>2 DEF Destroy, VMs
  <2>4. w \in VMs /\ w.clone = s /\ w.canary = vc[b].canary /\ w.snapshot = vc[b].snapshot
        /\ w.facts = vc[b].facts /\ w.submits = vc[b].submits
    BY <1>1, <2>2 DEF VMs
  <2> QED BY <1>2, <2>1, <2>3, <2>4
<1>3. CASE x = "canary"
  <2>1. PICK s \in VMStates : s = IF vc[b].canary = "exists" THEN "destroying" ELSE vc[b].canary
    BY <1>1 DEF VMStates
  <2>2. PICK w : w = [vc[b] EXCEPT !.canary = s]
    OBVIOUS
  <2>3. vc' = [vc EXCEPT ![b] = w]
    BY <1>1, <1>3, <2>1, <2>2 DEF Destroy, VMs
  <2>4. w \in VMs /\ w.canary = s /\ w.clone = vc[b].clone /\ w.snapshot = vc[b].snapshot
        /\ w.facts = vc[b].facts /\ w.submits = vc[b].submits
    BY <1>1, <2>2 DEF VMs
  <2> QED BY <1>3, <2>1, <2>3, <2>4
<1> QED BY <1>2, <1>3

\* An armed call that is made, by the run that holds the claim or by one that
\* lost it, leaves the build honest.
LEMMA EffectHonest ==
  ASSUME IInv, NEW b \in Builds, NEW call \in Calls, Effect(b, call),
         NEW m \in SUBSET Calls, NEW q \in Calls \cup {"idle", "step", "end"},
         \/ run[b] = call /\ q = "step" /\ m = late[b]
         \/ call \in late[b] /\ q = run[b] /\ m = late[b] \ {call}
  PROVE  \E w \in VMs : vc' = [vc EXCEPT ![b] = w] /\ Honest(build[b], job[b], q, m, w)
<1>1. /\ build[b] \in Build /\ job[b] \in Jobs /\ late[b] \in SUBSET Calls /\ vc[b] \in VMs
      /\ run[b] \in Calls \cup {"idle", "step", "end"}
      /\ Honest(build[b], job[b], run[b], late[b], vc[b])
  BY OneBuild DEF Typed
<1>s. PICK d, k, r, l, v : d = build[b] /\ k = job[b] /\ r = run[b] /\ l = late[b] /\ v = vc[b]
  OBVIOUS
<1>h. /\ d \in Build /\ k \in Jobs /\ l \in SUBSET Calls /\ v \in VMs /\ r \in Calls \cup {"idle", "step", "end"}
      /\ Honest(d, k, r, l, v)
      /\ (r = call /\ q = "step" /\ m = l) \/ (call \in l /\ q = r /\ m = l \ {call})
  BY <1>1, <1>s
<1>2. CASE call \in Created
  <2>1. Submit(b, call)
    BY <1>2 DEF Effect, Created
  <2>2. vc[b].submits[call] = 0
    BY <1>1, <1>2 DEF Honest, ArmedOnce
  <2>3. PICK w \in VMs : /\ vc' = [vc EXCEPT ![b] = w]
                         /\ w[call] = "running" /\ w.submits[call] = 1 /\ w.facts = vc[b].facts
                         /\ \A y \in Created \ {call} : w[y] = vc[b][y] /\ w.submits[y] = vc[b].submits[y]
    BY <1>2, <2>1, <2>2, SubmitFacts
  <2>4. /\ w[call] = "running" /\ w.submits[call] = 1 /\ w.facts = v.facts
        /\ \A y \in Created \ {call} : w[y] = v[y] /\ w.submits[y] = v.submits[y]
    BY <1>s, <2>3
  <2>5. Honest(d, k, q, m, w)
    BY <1>h, <1>2, <2>4, HonestSends
  <2> QED BY <1>s, <2>3, <2>5
<1>3. CASE call \in {"canary_cleanup", "residue_cleanup"}
  <2>1. PICK x \in {"clone", "canary"} : Destroy(b, x) /\ (x = "canary" <=> call = "canary_cleanup")
    BY <1>3 DEF Effect
  <2>2. PICK w \in VMs : /\ vc' = [vc EXCEPT ![b] = w]
                         /\ w.submits = vc[b].submits /\ w.facts = vc[b].facts /\ w.snapshot = vc[b].snapshot
                         /\ x = "canary" => w.clone = vc[b].clone
                         /\ x = "clone" => w.canary = vc[b].canary
                         /\ \/ w.clone = vc[b].clone
                            \/ vc[b].clone = "exists" /\ w.clone = "destroying"
                         /\ \/ w.canary = vc[b].canary
                            \/ vc[b].canary = "exists" /\ w.canary = "destroying"
    BY <2>1, DestroyFacts
  <2>3. /\ vc' = [vc EXCEPT ![b] = w] /\ w.submits = vc[b].submits /\ w.facts = vc[b].facts
        /\ w.snapshot = vc[b].snapshot
        /\ w.clone = vc[b].clone \/ (vc[b].clone = "exists" /\ w.clone = "destroying")
        /\ w.canary = vc[b].canary \/ (vc[b].canary = "exists" /\ w.canary = "destroying")
    BY <2>2
  <2>4. /\ call = "canary_cleanup" => w.clone = vc[b].clone
        /\ call = "residue_cleanup" => w.canary = vc[b].canary
    BY <1>3, <2>1, <2>2
  <2>5. /\ w.submits = v.submits /\ w.facts = v.facts /\ w.snapshot = v.snapshot
        /\ w.clone = v.clone \/ (v.clone = "exists" /\ w.clone = "destroying")
        /\ w.canary = v.canary \/ (v.canary = "exists" /\ w.canary = "destroying")
        /\ call = "canary_cleanup" => w.clone = v.clone
        /\ call = "residue_cleanup" => w.canary = v.canary
    BY <1>s, <2>3, <2>4
  <2>6. Honest(d, k, q, m, w)
    BY <1>h, <1>3, <2>5, HonestDestroys
  <2> QED BY <1>s, <2>3, <2>6
<1> QED BY <1>2, <1>3 DEF Calls, Created

\* An armed call of a run that lost its claim reaches vCenter.
LEMMA LateCallKeeps ==
  ASSUME IInv, NEW b \in Builds, LateCall(b) PROVE IInv'
<1>1. PICK call \in late[b] :
       /\ Effect(b, call)
       /\ late' = [late EXCEPT ![b] = @ \ {call}]
       /\ UNCHANGED <<build, job, run, replica, placed>>
  BY DEF LateCall
<1>2. PICK m : m = late[b] \ {call}
  OBVIOUS
<1>3. call \in Calls /\ m \in SUBSET Calls /\ run[b] \in Calls \cup {"idle", "step", "end"}
  BY <1>1, <1>2, OneBuild DEF Typed
<1>4. PICK w \in VMs : vc' = [vc EXCEPT ![b] = w] /\ Honest(build[b], job[b], run[b], m, w)
  BY <1>1, <1>2, <1>3, EffectHonest
<1>5. Typed(build[b], job[b], run[b], m, w) /\ late' = [late EXCEPT ![b] = m]
      /\ Save(b, build[b]) /\ Goes(b, run[b]) /\ SameLinks(b, build[b])
  BY <1>1, <1>2, <1>3, OneBuild DEF Typed, Save, Goes, SameLinks
<1> QED BY <1>1, <1>4, <1>5, GoesKeeps

\* What the end of a task may change.
TaskOf(b) ==
    \E w \in VMs :
         /\ vc' = [vc EXCEPT ![b] = w] /\ w.submits = vc[b].submits
         /\ \/ w.clone = vc[b].clone /\ w.facts = vc[b].facts
            \/ vc[b].clone = "running" /\ w.clone \in {"exists", "failed"}
            \/ vc[b].clone = "destroying" /\ w.clone \in {"exists", "gone"}
         /\ \/ w.snapshot = vc[b].snapshot
            \/ vc[b].snapshot = "running" /\ w.snapshot \in {"exists", "failed"}
         /\ \/ w.canary = vc[b].canary
            \/ vc[b].canary = "running" /\ w.canary \in {"exists", "failed"}
            \/ vc[b].canary = "destroying" /\ w.canary \in {"exists", "gone"}

\* vCenter ends a task.
LEMMA TaskKeeps ==
  ASSUME IInv, NEW b \in Builds, VCenterTask(b) PROVE IInv'
<1>1. TaskEnds(b) /\ UNCHANGED <<build, job, run, late, replica, placed>>
  BY DEF VCenterTask
<1>2. /\ vc \in [Builds -> VMs] /\ vc[b] \in VMs
      /\ vc[b]["clone"] = vc[b].clone /\ vc[b]["canary"] = vc[b].canary
  BY VMType DEF IInv, TypeOK
<1>3. TaskOf(b)
  <2>1. ASSUME NEW s \in {"exists", "failed"}, NEW f \in Facts, vc[b].clone = "running",
               vc' = [vc EXCEPT ![b].clone = s, ![b].facts = IF s = "exists" THEN f ELSE "exact"]
        PROVE  TaskOf(b)
    <3>1. PICK g \in Facts : g = IF s = "exists" THEN f ELSE "exact"
      BY FactsNamed
    <3>2. PICK w : w = [vc[b] EXCEPT !.clone = s, !.facts = g]
      OBVIOUS
    <3>3. vc' = [vc EXCEPT ![b] = w]
      BY <1>2, <2>1, <3>1, <3>2 DEF VMs
    <3>4. w \in VMs /\ w.clone = s /\ w.canary = vc[b].canary /\ w.snapshot = vc[b].snapshot
          /\ w.submits = vc[b].submits
      BY <1>2, <3>2 DEF VMs, VMStates
    <3> QED BY <2>1, <3>3, <3>4 DEF TaskOf
  <2>2. ASSUME NEW s \in {"exists", "failed"}, vc[b].snapshot = "running", vc' = [vc EXCEPT ![b].snapshot = s]
        PROVE  TaskOf(b)
    <3>2. PICK w : w = [vc[b] EXCEPT !.snapshot = s]
      OBVIOUS
    <3>3. vc' = [vc EXCEPT ![b] = w]
      BY <1>2, <2>2, <3>2 DEF VMs
    <3>4. w \in VMs /\ w.clone = vc[b].clone /\ w.canary = vc[b].canary /\ w.snapshot = s
          /\ w.submits = vc[b].submits /\ w.facts = vc[b].facts
      BY <1>2, <3>2 DEF VMs
    <3> QED BY <2>2, <3>3, <3>4 DEF TaskOf
  <2>3. ASSUME NEW s \in {"exists", "failed", "gone"}, vc' = [vc EXCEPT ![b].canary = s],
               \/ vc[b].canary = "running" /\ s \in {"exists", "failed"}
               \/ vc[b].canary = "destroying" /\ s \in {"exists", "gone"}
        PROVE  TaskOf(b)
    <3>2. PICK w : w = [vc[b] EXCEPT !.canary = s]
      OBVIOUS
    <3>3. vc' = [vc EXCEPT ![b] = w]
      BY <1>2, <2>3, <3>2 DEF VMs
    <3>4. w \in VMs /\ w.clone = vc[b].clone /\ w.canary = s /\ w.snapshot = vc[b].snapshot
          /\ w.submits = vc[b].submits /\ w.facts = vc[b].facts
      BY <1>2, <3>2 DEF VMs, VMStates
    <3> QED BY <2>3, <3>3, <3>4 DEF TaskOf
  <2>4. ASSUME NEW s \in {"exists", "gone"}, vc' = [vc EXCEPT ![b].clone = s], vc[b].clone = "destroying"
        PROVE  TaskOf(b)
    <3>2. PICK w : w = [vc[b] EXCEPT !.clone = s]
      OBVIOUS
    <3>3. vc' = [vc EXCEPT ![b] = w]
      BY <1>2, <2>4, <3>2 DEF VMs
    <3>4. w \in VMs /\ w.clone = s /\ w.canary = vc[b].canary /\ w.snapshot = vc[b].snapshot
          /\ w.submits = vc[b].submits /\ w.facts = vc[b].facts
      BY <1>2, <3>2 DEF VMs, VMStates
    <3> QED BY <2>4, <3>3, <3>4 DEF TaskOf
  <2>5. CASE \E x \in {"clone", "canary"}, s \in {"gone", "exists"} :
               vc[b][x] = "destroying" /\ vc' = [vc EXCEPT ![b][x] = s]
    <3>1. PICK x \in {"clone", "canary"}, s \in {"gone", "exists"} :
               vc[b][x] = "destroying" /\ vc' = [vc EXCEPT ![b][x] = s]
      BY <2>5
    <3>2. CASE x = "clone"
      BY <1>2, <3>1, <3>2, <2>4
    <3>3. CASE x = "canary"
      BY <1>2, <3>1, <3>3, <2>3
    <3> QED BY <3>2, <3>3
  <2> QED BY <1>1, <2>1, <2>2, <2>3, <2>5 DEF TaskEnds
<1>4. PICK w \in VMs :
         /\ vc' = [vc EXCEPT ![b] = w] /\ w.submits = vc[b].submits
         /\ \/ w.clone = vc[b].clone /\ w.facts = vc[b].facts
            \/ vc[b].clone = "running" /\ w.clone \in {"exists", "failed"}
            \/ vc[b].clone = "destroying" /\ w.clone \in {"exists", "gone"}
         /\ \/ w.snapshot = vc[b].snapshot
            \/ vc[b].snapshot = "running" /\ w.snapshot \in {"exists", "failed"}
         /\ \/ w.canary = vc[b].canary
            \/ vc[b].canary = "running" /\ w.canary \in {"exists", "failed"}
            \/ vc[b].canary = "destroying" /\ w.canary \in {"exists", "gone"}
  BY <1>3 DEF TaskOf
<1>5. Honest(build[b], job[b], run[b], late[b], w)
  BY <1>2, <1>4, OneBuild, HonestTask DEF Typed
<1>6. Typed(build[b], job[b], run[b], late[b], w) /\ late' = [late EXCEPT ![b] = late[b]]
      /\ Save(b, build[b]) /\ Goes(b, run[b]) /\ SameLinks(b, build[b])
  BY <1>1, OneBuild DEF Typed, Save, Goes, SameLinks
<1> QED BY <1>1, <1>4, <1>5, <1>6, GoesKeeps

\* The phase saved after a call says of a running build what the armed one said.
LEMMA HonestSubmitted ==
  ASSUME NEW row \in Build, NEW j \in Jobs, NEW l \in SUBSET Calls, NEW v \in VMs, NEW call \in Calls,
         Honest(row, j, "step", l, v), row.phase = ArmedPhase(call), j.st = "active",
         NEW done, done = [row EXCEPT !.phase = SubmittedPhase(call)]
  PROVE  /\ Typed(done, j, "step", l, v) /\ Honest(done, j, "step", l, v)
         /\ done.status = row.status /\ done.result = row.result
         /\ done.compute = row.compute /\ done.source = row.source
         /\ row.status \notin {"none", "ready", "retired"}
<1>1. PICK p : p = SubmittedPhase(call)
  OBVIOUS
<1>2. /\ call = "clone" => row.phase = "clone_submitting" /\ p = "clone_submitted"
      /\ call = "snapshot" => row.phase = "snapshot_submitting" /\ p = "snapshot_submitted"
      /\ call = "canary" => row.phase = "canary_submitting" /\ p = "canary_submitted"
      /\ call = "canary_cleanup" => row.phase = "cleanup_submitting" /\ p = "cleanup_submitted"
      /\ call = "residue_cleanup" => row.phase = "residue_submitting" /\ p = "residue_submitted"
  BY <1>1, Phase DEF SubmittedPhase
<1>3. p \in Phases /\ (call # "residue_cleanup" => p \in Forward)
  BY <1>2 DEF Phases, Forward, Residue, Calls
<1>4. done = [row EXCEPT !.phase = p]
  BY <1>1
<1>5. /\ done \in Build /\ done.status = row.status /\ done.phase = p
      /\ done.resume = row.resume /\ done.dest = row.dest /\ done.cleaned = row.cleaned
      /\ done.result = row.result /\ done.compute = row.compute /\ done.source = row.source
  BY <1>3, <1>4 DEF Build
<1>6. row.status \notin {"none", "ready", "retired"} /\ (row.status \in Running => call # "residue_cleanup")
  BY <1>2 DEF Honest, RunFollows, AcceptedIsSound, Calls, Forward
<1>7. CASE row.status \in Running
  <2>1. PhaseIsTrue(done, "step", l, v)
    BY <1>2, <1>5, <1>6, <1>7 DEF Honest, PhaseIsTrue, BeforeClone, BeforeSeal, BeforeCanary, Calls
  <2>2. Honest(done, j, "step", l, v)
    BY ZenonT(60), <1>3, <1>5, <1>6, <1>7, <2>1, HonestForward DEF Calls, Created
  <2> QED BY <1>5, <1>6, <2>2 DEF Typed
<1>8. CASE row.status \notin Running
  <2>1. j.cleanup
    BY <1>2, <1>8 DEF Honest, RunFollows, Calls, Forward
  <2>2. Honest(done, j, "step", l, v)
    BY <1>5, <1>6, <2>1, HonestCleanup
  <2> QED BY <1>5, <1>6, <2>2 DEF Typed
<1> QED BY <1>7, <1>8

\* The armed call is made or not, and its answer comes back or not.
LEMMA CallKeeps ==
  ASSUME IInv, NEW b \in Builds, Call(b) PROVE IInv'
<1>1. PICK call \in Calls : call = run[b]
  BY DEF Call
<1>2. /\ Typed(build[b], job[b], call, late[b], vc[b])
      /\ build[b] \in Build /\ job[b] \in Jobs /\ late[b] \in SUBSET Calls /\ vc[b] \in VMs
      /\ Honest(build[b], job[b], call, late[b], vc[b])
  BY <1>1, OneBuild DEF Typed
<1>3. /\ Honest(build[b], job[b], "step", late[b], vc[b]) /\ job[b].st = "active"
      /\ build[b].status \notin {"none", "ready"} /\ build[b].phase = ArmedPhase(call)
  BY <1>2, HonestStep DEF Honest, RunFollows
<1>4. PICK done : done = [build[b] EXCEPT !.phase = SubmittedPhase(call)]
  OBVIOUS
<1>5. late' = [late EXCEPT ![b] = late[b]] /\ placed' = placed /\ SameLinks(b, build[b])
  BY OneBuild DEF Call, SameLinks
<1>6. /\ Honest(done, job[b], "step", late[b], vc[b])
      /\ build[b].status \notin {"none", "ready", "retired"}
  BY <1>2, <1>3, <1>4, HonestSubmitted
<1>7. ASSUME Effect(b, call),
             Returns(b, done, "wait") \/ Advance(b, done) \/ Returns(b, build[b], "plain")
      PROVE  IInv'
  <2>1. PICK w \in VMs : vc' = [vc EXCEPT ![b] = w] /\ Honest(build[b], job[b], "step", late[b], w)
    BY <1>1, <1>2, <1>7, EffectHonest
  <2>2. /\ Typed(done, job[b], "step", late[b], w) /\ Honest(done, job[b], "step", late[b], w)
        /\ done.status = build[b].status /\ done.result = build[b].result
        /\ done.compute = build[b].compute /\ done.source = build[b].source
    BY <1>2, <1>3, <1>4, <2>1, HonestSubmitted
  <2>3. SameLinks(b, done) /\ Typed(build[b], job[b], "step", late[b], w)
    BY <1>2, <2>1, <2>2 DEF SameLinks, Typed
  <2>4. ASSUME Returns(b, done, "wait") PROVE IInv'
    BY <1>5, <1>6, <2>1, <2>2, <2>3, <2>4, ReturnsKeeps
  <2>5. ASSUME Advance(b, done) PROVE IInv'
    BY <1>5, <2>1, <2>2, <2>3, <2>5, GoesKeeps DEF Advance
  <2>6. ASSUME Returns(b, build[b], "plain") PROVE IInv'
    BY <1>5, <1>6, <2>1, <2>3, <2>6, ReturnsKeeps
  <2> QED BY <1>7, <2>4, <2>5, <2>6
<1>8. ASSUME UNCHANGED vc, Advance(b, build[b]) \/ \E err : Returns(b, build[b], err)
      PROVE  IInv'
  <2>1. vc' = [vc EXCEPT ![b] = vc[b]] /\ Typed(build[b], job[b], "step", late[b], vc[b])
    BY <1>2, <1>8, OneBuild DEF Typed
  <2>2. ASSUME NEW err, Returns(b, build[b], err) PROVE IInv'
    BY <1>3, <1>5, <1>6, <2>1, <2>2, ReturnsKeeps
  <2>3. ASSUME Advance(b, build[b]) PROVE IInv'
    BY <1>3, <1>5, <2>1, <2>3, GoesKeeps DEF Advance
  <2> QED BY <1>8, <2>2, <2>3
<1>9. \/ /\ Effect(b, run[b])
         /\ \/ Returns(b, [build[b] EXCEPT !.phase = SubmittedPhase(run[b])], "wait")
            \/ Advance(b, [build[b] EXCEPT !.phase = SubmittedPhase(run[b])])
            \/ Returns(b, build[b], "plain")
      \/ UNCHANGED vc /\ (Advance(b, build[b]) \/ \E err : Returns(b, build[b], err))
  BY DEF Call
<1>10. done = [build[b] EXCEPT !.phase = SubmittedPhase(run[b])]
  BY <1>1, <1>4
<1> QED BY <1>1, <1>7, <1>8, <1>9, <1>10

\* A worker claims the job.
LEMMA ClaimKeeps ==
  ASSUME IInv, NEW b \in Builds, Claim(b) PROVE IInv'
<1>1. /\ job[b].st = "pending" /\ job' = [job EXCEPT ![b].st = "active"]
      /\ run' = [run EXCEPT ![b] = "step"] /\ UNCHANGED <<build, late, vc, replica, placed>>
  BY DEF Claim
<1>2. PICK k : k = [job[b] EXCEPT !.st = "active"]
  OBVIOUS
<1>3. /\ build[b] \in Build /\ job[b] \in Jobs /\ late[b] \in SUBSET Calls /\ vc[b] \in VMs
      /\ Honest(build[b], job[b], run[b], late[b], vc[b]) /\ RowHonest(build[b], replica)
      /\ job \in [Builds -> Jobs]
  BY OneBuild DEF Typed, IInv, TypeOK
<1>4. k \in Jobs /\ k.st = "active" /\ k.cleanup = job[b].cleanup
  BY <1>2, <1>3 DEF Jobs
<1>5. run[b] = "idle" /\ build[b].status # "none"
  BY <1>1, <1>3 DEF Honest, RunFollows
<1>6. Honest(build[b], k, "step", late[b], vc[b])
  BY <1>1, <1>3, <1>4, <1>5, HonestJob
<1>7. Becomes(b, build[b], k, "step", late[b], vc[b]) /\ Typed(build[b], k, "step", late[b], vc[b])
  BY <1>1, <1>2, <1>3, <1>4, OneBuild DEF Becomes, Typed, Jobs
<1> QED
  BY <1>1, <1>3, <1>5, <1>6, <1>7, StepKeeps DEF RowHonest

\* A run loses its claim and leaves its armed call behind.
LEMMA LeaseLostKeeps ==
  ASSUME IInv, NEW b \in Builds, LeaseLost(b) PROVE IInv'
<1>1. /\ job[b].st = "active" /\ job' = [job EXCEPT ![b].st = "pending"]
      /\ run' = [run EXCEPT ![b] = "idle"]
      /\ late' = [late EXCEPT ![b] = late[b] \cup ({run[b]} \cap Calls)]
      /\ UNCHANGED <<build, vc, replica, placed>>
  BY DEF LeaseLost
<1>2. PICK k : k = [job[b] EXCEPT !.st = "pending"]
  OBVIOUS
<1>3. /\ build[b] \in Build /\ job[b] \in Jobs /\ late[b] \in SUBSET Calls /\ vc[b] \in VMs
      /\ run[b] \in Calls \cup {"idle", "step", "end"}
      /\ Honest(build[b], job[b], run[b], late[b], vc[b]) /\ RowHonest(build[b], replica)
      /\ job \in [Builds -> Jobs]
  BY OneBuild DEF Typed, IInv, TypeOK
<1>4. k \in Jobs /\ k.st = "pending" /\ k.cleanup = job[b].cleanup
  BY <1>2, <1>3 DEF Jobs
<1>5. build[b].status # "none"
  BY <1>1, <1>3 DEF Honest, RunFollows
<1>6. PICK m \in SUBSET Calls : m = late[b] \cup ({run[b]} \cap Calls)
  BY <1>3
<1>7. Honest(build[b], k, "idle", m, vc[b])
  BY <1>1, <1>3, <1>4, <1>6, HonestLost
<1>8. Becomes(b, build[b], k, "idle", m, vc[b]) /\ Typed(build[b], k, "idle", m, vc[b])
  BY <1>1, <1>2, <1>3, <1>4, <1>6, OneBuild DEF Becomes, Typed, Jobs
<1> QED
  BY <1>1, <1>3, <1>5, <1>7, <1>8, StepKeeps DEF RowHonest

\* The terminal write of a job.
LEMMA JobEndsKeeps ==
  ASSUME IInv, NEW b \in Builds, JobEnds(b) PROVE IInv'
<1>1. /\ run[b] = "end" /\ job' = [job EXCEPT ![b].st = "ended"]
      /\ run' = [run EXCEPT ![b] = "idle"] /\ UNCHANGED <<build, late, vc, replica, placed>>
  BY DEF JobEnds
<1>2. PICK k : k = [job[b] EXCEPT !.st = "ended"]
  OBVIOUS
<1>3. /\ build[b] \in Build /\ job[b] \in Jobs /\ late[b] \in SUBSET Calls /\ vc[b] \in VMs
      /\ Honest(build[b], job[b], run[b], late[b], vc[b]) /\ RowHonest(build[b], replica)
      /\ job \in [Builds -> Jobs]
  BY OneBuild DEF Typed, IInv, TypeOK
<1>4. k \in Jobs /\ k.st = "ended" /\ k.cleanup = job[b].cleanup
  BY <1>2, <1>3 DEF Jobs
<1>5. build[b].status # "none"
  BY <1>1, <1>3 DEF Honest, RunFollows
<1>6. Honest(build[b], k, "idle", late[b], vc[b])
  BY <1>1, <1>3, <1>4, <1>5, HonestJob
<1>7. Becomes(b, build[b], k, "idle", late[b], vc[b]) /\ Typed(build[b], k, "idle", late[b], vc[b])
  BY <1>1, <1>2, <1>3, <1>4, OneBuild DEF Becomes, Typed, Jobs
<1> QED
  BY <1>1, <1>3, <1>5, <1>6, <1>7, StepKeeps DEF RowHonest

-----------------------------------------------------------------------------
(***************************************************************************)
(* The actions of a run that cleans up.                                     *)
(***************************************************************************)

\* What a run that cleans up may rely on.
LEMMA Cleans ==
  ASSUME IInv, NEW b \in Builds, Cleanup(b)
  PROVE  /\ run[b] = "step" /\ job[b].cleanup /\ job[b].st = "active"
         /\ build[b].source # None
         /\ build[b].status \notin Running \cup {"none", "ready", "retired"}
         /\ build[b] \in Build /\ job[b] \in Jobs /\ late[b] \in SUBSET Calls /\ vc[b] \in VMs
         /\ Typed(build[b], job[b], "step", late[b], vc[b])
         /\ Honest(build[b], job[b], "step", late[b], vc[b])
         /\ late' = [late EXCEPT ![b] = late[b]] /\ vc' = [vc EXCEPT ![b] = vc[b]] /\ placed' = placed
         /\ SameLinks(b, build[b])
<1>1. /\ run[b] = "step" /\ job[b].cleanup /\ build[b].status # "retired" /\ build[b].source # None
      /\ UNCHANGED <<vc, late, placed>>
  BY DEF Cleanup
<1>2. /\ Typed(build[b], job[b], "step", late[b], vc[b])
      /\ Honest(build[b], job[b], "step", late[b], vc[b])
      /\ build[b] \in Build /\ job[b] \in Jobs /\ late[b] \in SUBSET Calls /\ vc[b] \in VMs
  BY <1>1, OneBuild DEF Typed
<1>3. job[b].st = "active" /\ build[b].status \notin Running \cup {"none", "ready", "retired"}
  BY <1>1, <1>2 DEF Honest, RunFollows, AcceptedIsSound
<1> QED
  BY <1>1, <1>2, <1>3, OneBuild DEF SameLinks

\* A cleanup that gives up where it is.
LEMMA CleanupGivesUp ==
  ASSUME IInv, NEW b \in Builds, Cleanup(b), NEW err, Returns(b, build[b], err)
  PROVE  IInv'
<1>1. /\ Typed(build[b], job[b], "step", late[b], vc[b])
      /\ Honest(build[b], job[b], "step", late[b], vc[b])
      /\ late' = [late EXCEPT ![b] = late[b]] /\ vc' = [vc EXCEPT ![b] = vc[b]] /\ placed' = placed
      /\ SameLinks(b, build[b]) /\ build[b].status \notin {"none", "ready", "retired"}
  BY Cleans
<1> QED BY <1>1, ReturnsKeeps

\* The rows a cleanup writes differ in their phase and in what was found.
CleanupRow(b, new) ==
    /\ new \in Build /\ new.status = build[b].status /\ new.resume = build[b].resume
    /\ new.cleaned = build[b].cleaned /\ new.result = build[b].result
    /\ new.compute = build[b].compute /\ new.source = build[b].source
    /\ build[b].dest => new.dest

\* The row a cleanup job writes is honest if its VMs allow it.
LEMMA CleanupHonest ==
  ASSUME IInv, NEW b \in Builds, Cleanup(b), NEW new, CleanupRow(b, new),
         NEW q \in {"step", "canary_cleanup", "residue_cleanup"},
         q # "step" => new.phase = ArmedPhase(q), q = "residue_cleanup" => new.dest
  PROVE  /\ Honest(new, job[b], q, late[b], vc[b]) /\ Typed(new, job[b], q, late[b], vc[b])
         /\ SameLinks(b, new) /\ new.status \notin {"none", "ready", "retired"}
<1>1. /\ new \in Build /\ new.status = build[b].status /\ new.resume = build[b].resume
      /\ new.cleaned = build[b].cleaned /\ (build[b].dest => new.dest)
      /\ new.compute = build[b].compute /\ new.source = build[b].source
  BY DEF CleanupRow
<1>2. Honest(new, job[b], q, late[b], vc[b])
  BY <1>1, Cleans, HonestCleanup
<1>3. Typed(new, job[b], q, late[b], vc[b]) /\ SameLinks(b, new)
  BY <1>1, Cleans DEF Typed, SameLinks, Calls
<1> QED BY <1>1, <1>2, <1>3, Cleans

\* A cleanup that goes on, or arms a destroy.
LEMMA CleanupGoes ==
  ASSUME IInv, NEW b \in Builds, Cleanup(b), NEW new, CleanupRow(b, new),
         NEW q \in {"step", "canary_cleanup", "residue_cleanup"},
         q # "step" => new.phase = ArmedPhase(q), q = "residue_cleanup" => new.dest,
         Save(b, new), Goes(b, q), UNCHANGED <<job, replica>>
  PROVE  IInv'
<1>1. new.result = build[b].result
  BY DEF CleanupRow
<1> QED BY <1>1, Cleans, CleanupHonest, GoesKeeps

\* A cleanup that returns after it wrote.
LEMMA CleanupReturns ==
  ASSUME IInv, NEW b \in Builds, Cleanup(b), NEW new, CleanupRow(b, new), NEW err, Returns(b, new, err)
  PROVE  IInv'
<1>1. new.result = build[b].result
  BY DEF CleanupRow
<1>2. /\ Honest(new, job[b], "step", late[b], vc[b]) /\ Typed(new, job[b], "step", late[b], vc[b])
      /\ SameLinks(b, new) /\ new.status \notin {"none", "ready", "retired"}
  BY CleanupHonest
<1> QED BY <1>1, <1>2, Cleans, ReturnsKeeps

\* A cleanup with no canary on record.
LEMMA CleanupUnknownCanaryKeeps ==
  ASSUME IInv, NEW b \in Builds, CleanupUnknownCanary(b) PROVE IInv'
<1>1. Cleanup(b)
  BY DEF CleanupUnknownCanary
<1>2. ASSUME NEW err, Returns(b, build[b], err) PROVE IInv'
  BY <1>1, <1>2, CleanupGivesUp
<1>3. build[b] \in Build
  BY <1>1, Cleans
<1> DEFINE p == IF build[b].phase \in Residue THEN build[b].phase ELSE "residue_prepared"
<1>4. p \in Phases
  BY DEF Residue, Phases
<1>5. ASSUME Advance(b, [build[b] EXCEPT !.canary = TRUE]) PROVE IInv'
  <2>1. PICK new : new = [build[b] EXCEPT !.canary = TRUE]
    OBVIOUS
  <2>2. CleanupRow(b, new)
    BY <1>3, <2>1 DEF CleanupRow, Build
  <2>3. Save(b, new) /\ Goes(b, "step") /\ UNCHANGED <<job, replica>>
    BY <1>5, <2>1 DEF Advance
  <2> QED BY <1>1, <2>2, <2>3, CleanupGoes
<1>6. ASSUME Advance(b, [build[b] EXCEPT !.cdone = TRUE, !.phase = p]) PROVE IInv'
  <2>0. PICK ph \in Phases : ph = p
    BY <1>4
  <2>1. PICK new : new = [build[b] EXCEPT !.cdone = TRUE, !.phase = ph]
    OBVIOUS
  <2>2. CleanupRow(b, new)
    BY <1>3, <2>1 DEF CleanupRow, Build
  <2>3. Save(b, new) /\ Goes(b, "step") /\ UNCHANGED <<job, replica>>
    BY <1>6, <2>0, <2>1 DEF Advance
  <2> QED BY <1>1, <2>2, <2>3, CleanupGoes
<1>7. \/ Advance(b, [build[b] EXCEPT !.canary = TRUE])
      \/ Advance(b, [build[b] EXCEPT !.cdone = TRUE, !.phase = p])
      \/ \E err : Returns(b, build[b], err)
  BY DEF CleanupUnknownCanary, Unresolved
<1> QED BY <1>2, <1>5, <1>6, <1>7

\* A cleanup with a canary on record.
LEMMA CleanupCanaryKeeps ==
  ASSUME IInv, NEW b \in Builds, CleanupCanary(b) PROVE IInv'
<1>1. Cleanup(b)
  BY DEF CleanupCanary
<1>2. ASSUME NEW err, Returns(b, build[b], err) PROVE IInv'
  BY <1>1, <1>2, CleanupGivesUp
<1>3. build[b] \in Build
  BY <1>1, Cleans
<1>4. ASSUME Advance(b, [build[b] EXCEPT !.cdone = TRUE, !.phase = "residue_prepared"]) PROVE IInv'
  <2>1. PICK new : new = [build[b] EXCEPT !.cdone = TRUE, !.phase = "residue_prepared"]
    OBVIOUS
  <2>2. CleanupRow(b, new)
    BY <1>3, <2>1 DEF CleanupRow, Build, Phases, Residue
  <2>3. Save(b, new) /\ Goes(b, "step") /\ UNCHANGED <<job, replica>>
    BY <1>4, <2>1 DEF Advance
  <2> QED BY <1>1, <2>2, <2>3, CleanupGoes
<1>5. ASSUME Returns(b, [build[b] EXCEPT !.phase = "cleanup_prepared"], "wait") PROVE IInv'
  <2>1. PICK new : new = [build[b] EXCEPT !.phase = "cleanup_prepared"]
    OBVIOUS
  <2>2. CleanupRow(b, new)
    BY <1>3, <2>1 DEF CleanupRow, Build, Phases, Forward
  <2>3. Returns(b, new, "wait")
    BY <1>5, <2>1
  <2> QED BY <1>1, <2>2, <2>3, CleanupReturns
<1>6. ASSUME Arm(b, [build[b] EXCEPT !.phase = "cleanup_submitting"], "canary_cleanup") PROVE IInv'
  <2>1. PICK new : new = [build[b] EXCEPT !.phase = "cleanup_submitting"]
    OBVIOUS
  <2>2. CleanupRow(b, new) /\ new.phase = "cleanup_submitting"
    BY <1>3, <2>1 DEF CleanupRow, Build, Phases, Forward
  <2>3. Save(b, new) /\ Goes(b, "canary_cleanup") /\ UNCHANGED <<job, replica>>
    BY <1>6, <2>1 DEF Arm
  <2> QED BY <1>1, <2>2, <2>3, Phase, CleanupGoes
<1>7. \/ Advance(b, [build[b] EXCEPT !.cdone = TRUE, !.phase = "residue_prepared"])
      \/ Returns(b, [build[b] EXCEPT !.phase = "cleanup_prepared"], "wait")
      \/ Arm(b, [build[b] EXCEPT !.phase = "cleanup_submitting"], "canary_cleanup")
      \/ \E err : Returns(b, build[b], err)
  BY DEF CleanupCanary, DestroyWaited
<1> QED BY <1>2, <1>4, <1>5, <1>6, <1>7

\* Rows that let go of a replica, and the replica at c that goes with them.
LEMMA ForgetKeeps ==
  ASSUME IInv, NEW c \in Computes, NEW bs \in [Builds -> Build], build' = bs, placed' = placed,
         job' \in [Builds -> Jobs], run' \in [Builds -> Calls \cup {"idle", "step", "end"}],
         late' \in [Builds -> SUBSET Calls], vc' \in [Builds -> VMs],
         \A a \in Builds : Honest(bs[a], job'[a], run'[a], late'[a], vc'[a]),
         \A a \in Builds :
            /\ bs[a].compute = build[a].compute
            /\ bs[a].status \in Running => build[a].status \in Running /\ bs[a].source = build[a].source
            /\ build[a].status = "ready" => bs[a].status = "ready"
            /\ bs[a].status # "none" => build[a].status # "none"
            /\ bs[a].result => bs[a].status \notin {"none", "retired"},
         \/ replica' = replica /\ \A a \in Builds : bs[a].result = build[a].result
         \/ /\ replica' = [replica EXCEPT ![c] = NoReplica] /\ c \notin placed
            /\ \A a \in Builds : /\ bs[a].compute = c => ~bs[a].result
                                 /\ bs[a].compute # c => bs[a].result = build[a].result
                                 /\ bs[a].status \in Running => bs[a].source # c
  PROVE  IInv'
<1>1. /\ \A a \in Builds : build[a] \in Build /\ RowHonest(build[a], replica)
      /\ \A d \in Computes : ReplicaHonest(d)
      /\ replica \in [Computes -> Replica] /\ placed \subseteq Computes
      /\ \A d \in Computes : replica[d].of \in Builds \cup {None}
  BY DEF IInv, TypeOK, Replica
<1>2. \A a \in Builds : build[a].source \in Computes \cup {None} /\ build[a].compute \in Computes \cup {None}
  BY <1>1, BuildType
<1>3. CASE replica' = replica /\ \A a \in Builds : bs[a].result = build[a].result
  <2>1. \A a \in Builds : RowHonest(build'[a], replica')
    BY <1>1, <1>3 DEF RowHonest
  <2>2. \A d \in Computes : ReplicaHonest(d)'
    BY <1>1, <1>3 DEF ReplicaHonest
  <2> QED BY <1>1, <1>3, <2>1, <2>2 DEF IInv, TypeOK
<1>4. CASE /\ replica' = [replica EXCEPT ![c] = NoReplica] /\ c \notin placed
           /\ \A a \in Builds : /\ bs[a].compute = c => ~bs[a].result
                                /\ bs[a].compute # c => bs[a].result = build[a].result
                                /\ bs[a].status \in Running => bs[a].source # c
  <2>0. NoReplica \in Replica /\ NoReplica.st = "none" /\ NoReplica.of = None
    BY DEF NoReplica, Replica
  <2>1. /\ replica' \in [Computes -> Replica] /\ replica'[c] = NoReplica
        /\ \A d \in Computes \ {c} : replica'[d] = replica[d]
    BY <1>1, <1>4, <2>0
  <2>2. \A a \in Builds : RowHonest(build'[a], replica')
    <3>1. TAKE a \in Builds
    <3>2. bs[a].result => bs[a].compute # None
      BY <1>1, <1>4, NoneApart DEF RowHonest
    <3>3. bs[a].status # "none" => bs[a].compute # None
      BY <1>1 DEF RowHonest
    <3>4. bs[a].status \in Running => bs[a].source # None /\ replica'[bs[a].source].st = "ready"
      BY <1>1, <1>2, <1>4, <2>1 DEF RowHonest
    <3> QED BY <3>2, <3>3, <3>4 DEF RowHonest
  <2>3. \A d \in Computes : ReplicaHonest(d)'
    <3>1. TAKE d \in Computes
    <3>2. CASE d = c
      BY <3>2, <1>4, <2>0, <2>1, NoneApart DEF ReplicaHonest
    <3>3. CASE d # c
      BY <3>3, <1>1, <1>4, <2>1 DEF ReplicaHonest
    <3> QED BY <3>2, <3>3
  <2> QED BY <1>1, <2>1, <2>2, <2>3 DEF IInv, TypeOK
<1> QED BY <1>3, <1>4

\* Releasing the replica at c as a source leaves every build honest.
LEMMA ReleasedFacts ==
  ASSUME IInv, NEW c \in Computes, NEW bs, bs = Released(build, c)
  PROVE  /\ bs \in [Builds -> Build]
         /\ \A a \in Builds :
               /\ Honest(bs[a], job[a], run[a], late[a], vc[a])
               /\ bs[a].compute = build[a].compute /\ bs[a].status = build[a].status
               /\ bs[a].result = build[a].result
               /\ bs[a] # build[a] => Terminal(a) /\ build[a].source = c /\ bs[a].source = None
<1>1. \A a \in Builds : build[a] \in Build /\ Honest(build[a], job[a], run[a], late[a], vc[a])
  BY DEF IInv, TypeOK
<1>2. \A a \in Builds : bs[a] = IF build[a].source = c /\ Terminal(a) THEN [build[a] EXCEPT !.source = None] ELSE build[a]
  BY DEF Released
<1>3. \A a \in Builds : [build[a] EXCEPT !.source = None] \in Build
  BY ZenonT(60), <1>1 DEF Build
<1>4. bs \in [Builds -> Build]
  BY <1>1, <1>2, <1>3 DEF Released
<1>5. ASSUME NEW a \in Builds
      PROVE  /\ Honest(bs[a], job[a], run[a], late[a], vc[a])
             /\ bs[a].compute = build[a].compute /\ bs[a].status = build[a].status
             /\ bs[a].result = build[a].result
             /\ bs[a] # build[a] => Terminal(a) /\ build[a].source = c /\ bs[a].source = None
  <2>1. CASE bs[a] = build[a]
    BY <1>1, <2>1
  <2>2. CASE build[a].source = c /\ Terminal(a) /\ bs[a] = [build[a] EXCEPT !.source = None]
    <3>1. PICK row, new : row = build[a] /\ new = bs[a]
      OBVIOUS
    <3>2. /\ row \in Build /\ new = [row EXCEPT !.source = None]
          /\ Honest(row, job[a], run[a], late[a], vc[a])
      BY <1>1, <2>2, <3>1
    <3>3. /\ new.status = row.status /\ new.phase = row.phase /\ new.resume = row.resume
          /\ new.compute = row.compute /\ new.result = row.result /\ new.dest = row.dest
          /\ new.cleaned = row.cleaned /\ new.source = None
      BY <3>2 DEF Build
    <3>4. row.status \notin {"none", "ready"}
      <4>1. row.status = "none" => row.source = None
        <5>1. row.status = "none" => row = NoBuild
          BY <3>2 DEF Honest, RunFollows
        <5>2. NoBuild.source = None
          BY DEF NoBuild
        <5> QED BY <5>1, <5>2
      <4>2. row.source # None
        BY <2>2, <3>1, NoneApart
      <4> QED BY <2>2, <3>1, <4>1, <4>2 DEF Terminal
    <3>5. Honest(new, job[a], run[a], late[a], vc[a])
      BY <3>2, <3>3, <3>4
         DEF Honest, RunFollows, ResidueIsOver, PhaseIsTrue, ResumeIsSafe, AcceptedIsSound
    <3> QED BY <2>2, <3>1, <3>3, <3>5
  <2> QED BY <1>2, <2>1, <2>2
<1> QED BY <1>4, <1>5

\* The end of a cleanup.
LEMMA CompleteKeeps ==
  ASSUME IInv, NEW b \in Builds, Cleanup(b), CompleteTemplateReplicaBuildCleanup(b)
  PROVE  IInv'
<1>1. PICK row, c : row = build[b] /\ c = row.compute
  OBVIOUS
<1>2. PICK retiring \in BOOLEAN : retiring <=> row.status = "retiring"
  <2>1. CASE row.status = "retiring"
    BY <2>1
  <2>2. CASE row.status # "retiring"
    BY <2>2
  <2> QED BY <2>1, <2>2
<1>3. /\ row \in Build /\ row.status \notin Running \cup {"none", "ready", "retired"}
      /\ Honest(row, job[b], "step", late[b], vc[b]) /\ job[b].st = "active"
      /\ job[b] \in Jobs /\ late[b] \in SUBSET Calls /\ vc[b] \in VMs
      /\ run[b] = "step" /\ vc' = vc /\ late' = late /\ placed' = placed /\ c \in Computes
  BY <1>1, Cleans, OneBuild, BuildType DEF Cleanup, RowHonest
<1>4. PICK closed : closed = [row EXCEPT !.status = IF retiring THEN "retired" ELSE "failed",
                                         !.phase = IF retiring THEN "retired" ELSE "residue_cleaned",
                                         !.result = FALSE, !.cleaned = TRUE, !.code = "other"]
  OBVIOUS
<1>5. /\ closed \in Build /\ (closed.status = IF retiring THEN "retired" ELSE "failed")
      /\ (closed.phase = IF retiring THEN "retired" ELSE "residue_cleaned")
      /\ ~closed.result /\ closed.cleaned /\ closed.dest = row.dest /\ closed.resume = row.resume
      /\ closed.compute = row.compute /\ closed.source = row.source
  <2>1. PICK st, ph : st = (IF retiring THEN "retired" ELSE "failed")
                      /\ ph = IF retiring THEN "retired" ELSE "residue_cleaned"
    OBVIOUS
  <2>2. closed = [row EXCEPT !.status = st, !.phase = ph, !.result = FALSE, !.cleaned = TRUE, !.code = "other"]
    BY <1>4, <2>1
  <2>3. st \in Active \cup {"none", "ready", "failed", "retired"} /\ ph \in Phases
    BY <2>1 DEF Phases, Residue
  <2>4. /\ closed \in Build /\ closed.status = st /\ closed.phase = ph
        /\ ~closed.result /\ closed.cleaned /\ closed.dest = row.dest /\ closed.resume = row.resume
        /\ closed.compute = row.compute /\ closed.source = row.source
    BY <1>3, <2>2, <2>3 DEF Build
  <2> QED BY <2>1, <2>4
<1>6. Honest(closed, job[b], "end", late[b], vc[b])
  <2>1. ArmedOnce("end", late[b], vc[b])
    BY <1>3 DEF Honest, ArmedOnce, Created
  <2>2. RunFollows(closed, job[b], "end", late[b], vc[b])
    BY <1>3, <1>5 DEF RunFollows, Calls, Running, Forward
  <2>3. ResidueIsOver(closed, "end", late[b], vc[b])
    BY <1>3, <1>5 DEF Honest, ResidueIsOver, Residual, Running
  <2>4. PhaseIsTrue(closed, "end", late[b], vc[b])
    BY <1>5 DEF PhaseIsTrue, Running
  <2>5. ResumeIsSafe(closed, job[b], "end", late[b], vc[b])
    <3>1. ~retiring => row.status \in {"failed", "cleanup_required"}
      BY <1>2, <1>3, BuildType DEF Active, Running
    <3> QED BY <1>3, <1>5, <3>1 DEF Honest, ResumeIsSafe, Unsent
  <2>6. AcceptedIsSound(closed, job[b], "end", vc[b])
    BY <1>5 DEF AcceptedIsSound
  <2> QED BY <2>1, <2>2, <2>3, <2>4, <2>5, <2>6 DEF Honest
<1>7. ASSUME NEW bs \in [Builds -> Build], build' = [bs EXCEPT ![b] = closed],
             \A a \in Builds :
                /\ Honest(bs[a], job[a], run[a], late[a], vc[a])
                /\ bs[a].compute = build[a].compute /\ bs[a].status = build[a].status
                /\ bs[a].result = build[a].result
                /\ bs[a] # build[a] => Terminal(a) /\ build[a].source = c /\ bs[a].source = None,
             row.result => replica[c].st # "ready",
             replica' = IF row.result THEN [replica EXCEPT ![c] = NoReplica] ELSE replica,
             Goes(b, "end"), UNCHANGED job
      PROVE  IInv'
  <2>1. PICK cs : cs = [bs EXCEPT ![b] = closed]
    OBVIOUS
  <2>2. /\ cs \in [Builds -> Build] /\ cs[b] = closed
        /\ \A a \in Builds \ {b} : cs[a] = bs[a]
    BY <1>5, <1>7, <2>1
  <2>3. /\ job' \in [Builds -> Jobs] /\ run' \in [Builds -> Calls \cup {"idle", "step", "end"}]
        /\ late' \in [Builds -> SUBSET Calls] /\ vc' \in [Builds -> VMs]
        /\ run'[b] = "end" /\ \A a \in Builds \ {b} : run'[a] = run[a]
    BY <1>3, <1>7 DEF IInv, TypeOK, Goes
  <2>4. \A a \in Builds : Honest(cs[a], job'[a], run'[a], late'[a], vc'[a])
    <3>1. TAKE a \in Builds
    <3>2. CASE a = b
      BY <3>2, <1>3, <1>6, <1>7, <2>2, <2>3
    <3>3. CASE a # b
      BY <3>3, <1>3, <1>7, <2>2, <2>3
    <3> QED BY <3>2, <3>3
  <2>5. /\ \A a \in Builds : RowHonest(build[a], replica)
        /\ \A d \in Computes : ReplicaHonest(d)
    BY DEF IInv
  <2>6. \A a \in Builds :
            /\ cs[a].compute = build[a].compute
            /\ cs[a].status \in Running => build[a].status \in Running /\ cs[a].source = build[a].source
            /\ build[a].status = "ready" => cs[a].status = "ready"
            /\ cs[a].status # "none" => build[a].status # "none"
            /\ cs[a].result => cs[a].status \notin {"none", "retired"}
    <3>1. TAKE a \in Builds
    <3>2. CASE a = b
      BY <3>2, <1>1, <1>3, <1>5, <2>2 DEF Running
    <3>3. CASE a # b
      BY <3>3, <1>7, <2>2, <2>5 DEF RowHonest, Terminal, Running
    <3> QED BY <3>2, <3>3
  <2>7. CASE ~row.result
    <3>1. \A a \in Builds : cs[a].result = build[a].result
      <4>1. closed.result = row.result
        BY <1>3, <1>5, <2>7, BuildType
      <4> QED BY <1>1, <1>7, <2>2, <4>1
    <3>2. replica' = replica
      BY <1>7, <2>7
    <3> QED BY ZenonT(60), <1>3, <1>7, <2>1, <2>2, <2>3, <2>4, <2>6, <3>1, <3>2, ForgetKeeps
  <2>8. CASE row.result
    <3>1. replica[c].of = b /\ replica[c].st # "ready"
      BY <1>1, <1>3, <1>7, <2>5, <2>8 DEF ReplicaHonest
    <3>2. c \notin placed
      BY <1>3, <2>5, <3>1 DEF ReplicaHonest
    <3>3. ASSUME NEW a \in Builds
          PROVE  /\ cs[a].compute = c => ~cs[a].result
                 /\ cs[a].compute # c => cs[a].result = build[a].result
                 /\ cs[a].status \in Running => cs[a].source # c
      <4>1. CASE a = b
        BY <4>1, <1>1, <1>5, <2>2 DEF Running
      <4>2. CASE a # b
        <5>1. ~(build[a].result /\ build[a].compute = c)
          BY <1>3, <2>5, <3>1, <4>2 DEF ReplicaHonest
        <5>2. build[a].status \in Running => build[a].source # c
          BY <2>5, <3>1 DEF RowHonest
        <5> QED BY <5>1, <5>2, <4>2, <1>7, <2>2, <2>6
      <4> QED BY <4>1, <4>2
    <3>4. replica' = [replica EXCEPT ![c] = NoReplica]
      BY <1>7, <2>8
    <3>5. build' = cs /\ placed' = placed
      BY <1>3, <1>7, <2>1
    <3>6. \A a \in Builds : /\ cs[a].compute = c => ~cs[a].result
                            /\ cs[a].compute # c => cs[a].result = build[a].result
                            /\ cs[a].status \in Running => cs[a].source # c
      BY <3>3
    <3> QED BY <1>3, <2>2, <2>3, <2>4, <2>6, <3>2, <3>4, <3>5, <3>6, ForgetKeeps
  <2> QED BY <2>7, <2>8
<1>8. CASE Returns(b, build[b], "refused")
  BY <1>8, CleanupGivesUp
<1>9. CASE ~Returns(b, build[b], "refused")
  <2>1. /\ build' = [(IF retiring THEN Released(build, c) ELSE build) EXCEPT ![b] = closed]
        /\ replica' = IF row.result THEN [replica EXCEPT ![c] = NoReplica] ELSE replica
        /\ Goes(b, "end") /\ UNCHANGED job
        /\ retiring => replica[c].st = "disabled"
        /\ ~retiring /\ row.result => replica[c].st # "ready"
    BY <1>1, <1>2, <1>4, <1>9 DEF CompleteTemplateReplicaBuildCleanup
  <2>2. CASE retiring
    <3>1. PICK bs : bs = Released(build, c)
      OBVIOUS
    <3>2. /\ bs \in [Builds -> Build]
          /\ \A a \in Builds :
               /\ Honest(bs[a], job[a], run[a], late[a], vc[a])
               /\ bs[a].compute = build[a].compute /\ bs[a].status = build[a].status
               /\ bs[a].result = build[a].result
               /\ bs[a] # build[a] => Terminal(a) /\ build[a].source = c /\ bs[a].source = None
      BY <1>3, <3>1, ReleasedFacts
    <3>3. build' = [bs EXCEPT ![b] = closed] /\ replica[c].st # "ready"
      BY <2>1, <2>2, <3>1
    <3> QED BY <1>7, <2>1, <3>2, <3>3
  <2>3. CASE ~retiring
    <3>1. /\ build \in [Builds -> Build]
          /\ \A a \in Builds : Honest(build[a], job[a], run[a], late[a], vc[a])
      BY DEF IInv, TypeOK
    <3>2. PICK bs : bs = build
      OBVIOUS
    <3> QED BY <1>7, <2>1, <2>3, <3>1, <3>2
  <2> QED BY <2>2, <2>3
<1> QED BY <1>8, <1>9

\* A cleanup with no retained VM on record.
LEMMA CleanupUnknownCloneKeeps ==
  ASSUME IInv, NEW b \in Builds, CleanupUnknownClone(b) PROVE IInv'
<1>1. Cleanup(b)
  BY DEF CleanupUnknownClone
<1>0. build[b] \in Build
  BY <1>1, Cleans
<1>2. ASSUME NEW err, Returns(b, build[b], err) PROVE IInv'
  BY <1>1, <1>2, CleanupGivesUp
<1>3. ASSUME Advance(b, [build[b] EXCEPT !.dest = TRUE]) PROVE IInv'
  <2>1. PICK new : new = [build[b] EXCEPT !.dest = TRUE]
    OBVIOUS
  <2>2. CleanupRow(b, new)
    BY <1>0, <1>1, <2>1 DEF CleanupRow, Build
  <2>3. Save(b, new) /\ Goes(b, "step") /\ UNCHANGED <<job, replica>>
    BY <1>3, <2>1 DEF Advance
  <2> QED BY <1>1, <2>2, <2>3, CleanupGoes
<1>4. \/ Advance(b, [build[b] EXCEPT !.dest = TRUE])
      \/ CompleteTemplateReplicaBuildCleanup(b)
      \/ \E err : Returns(b, build[b], err)
  BY DEF CleanupUnknownClone
<1> QED BY <1>1, <1>2, <1>3, <1>4, CompleteKeeps

\* The retained VM is destroyed, in a status that never runs again.
LEMMA CleanupCloneKeeps ==
  ASSUME IInv, NEW b \in Builds, CleanupClone(b) PROVE IInv'
<1>1. Cleanup(b) /\ build[b].dest
  BY DEF CleanupClone
<1>0. build[b] \in Build
  BY <1>1, Cleans
<1>2. ASSUME NEW err, Returns(b, build[b], err) PROVE IInv'
  BY <1>1, <1>2, CleanupGivesUp
<1>3. ASSUME Returns(b, [build[b] EXCEPT !.phase = "residue_prepared"], "wait") PROVE IInv'
  <2>1. PICK new : new = [build[b] EXCEPT !.phase = "residue_prepared"]
    OBVIOUS
  <2>2. CleanupRow(b, new)
    BY <1>0, <1>1, <2>1 DEF CleanupRow, Build, Phases, Residue
  <2>3. Returns(b, new, "wait")
    BY <1>3, <2>1
  <2> QED BY <1>1, <2>2, <2>3, CleanupReturns
<1>4. ASSUME Arm(b, [build[b] EXCEPT !.phase = "residue_submitting"], "residue_cleanup") PROVE IInv'
  <2>1. PICK new : new = [build[b] EXCEPT !.phase = "residue_submitting"]
    OBVIOUS
  <2>2. CleanupRow(b, new) /\ new.phase = "residue_submitting" /\ new.dest
    BY <1>0, <1>1, <2>1 DEF CleanupRow, Build, Phases, Residue
  <2>3. Save(b, new) /\ Goes(b, "residue_cleanup") /\ UNCHANGED <<job, replica>>
    BY <1>4, <2>1 DEF Arm
  <2> QED BY <1>1, <2>2, <2>3, Phase, CleanupGoes
<1>5. \/ Returns(b, [build[b] EXCEPT !.phase = "residue_prepared"], "wait")
      \/ Arm(b, [build[b] EXCEPT !.phase = "residue_submitting"], "residue_cleanup")
      \/ CompleteTemplateReplicaBuildCleanup(b)
      \/ \E err : Returns(b, build[b], err)
  BY DEF CleanupClone, DestroyWaited
<1> QED BY <1>1, <1>2, <1>3, <1>4, <1>5, CompleteKeeps

-----------------------------------------------------------------------------
(***************************************************************************)
(* Operator requests.                                                       *)
(***************************************************************************)

\* Steps that leave builds alone and change what is registered or placed.
LEMMA RegistryKeeps ==
  ASSUME IInv, NEW c \in Computes, UNCHANGED <<build, job, run, late, vc>>,
         \/ /\ replica[c].st = "none" /\ replica' = [replica EXCEPT ![c] = [st |-> "ready", of |-> None]]
            /\ placed' = placed
         \/ replica' = replica /\ placed' = placed \ {c}
         \/ replica' = replica /\ replica[c].st = "ready" /\ placed' = placed \cup {c}
  PROVE  IInv'
<1>1. /\ \A a \in Builds : build[a] \in Build /\ RowHonest(build[a], replica)
      /\ \A d \in Computes : ReplicaHonest(d)
      /\ replica \in [Computes -> Replica] /\ placed \subseteq Computes
  BY DEF IInv, TypeOK
<1>2. \A a \in Builds : build[a].source \in Computes \cup {None}
  BY <1>1, BuildType
<1>3. CASE /\ replica[c].st = "none" /\ replica' = [replica EXCEPT ![c] = [st |-> "ready", of |-> None]]
           /\ placed' = placed
  <2>0. [st |-> "ready", of |-> None] \in Replica
    BY DEF Replica
  <2>1. /\ replica' \in [Computes -> Replica] /\ replica'[c].st = "ready" /\ replica'[c].of = None
        /\ \A d \in Computes \ {c} : replica'[d] = replica[d]
    BY <1>1, <1>3, <2>0
  <2>2. \A a \in Builds : RowHonest(build'[a], replica')
    BY <1>1, <1>2, <2>1 DEF RowHonest
  <2>3. \A d \in Computes : ReplicaHonest(d)'
    <3>1. TAKE d \in Computes
    <3>2. CASE d = c
      BY <3>2, <1>1, <1>3, <2>1 DEF ReplicaHonest
    <3>3. CASE d # c
      BY <3>3, <1>1, <1>3, <2>1 DEF ReplicaHonest
    <3> QED BY <3>2, <3>3
  <2> QED BY <1>3, <2>1, <2>2, <2>3 DEF IInv, TypeOK
<1>4. CASE replica' = replica /\ placed' = placed \ {c}
  BY <1>1, <1>4 DEF IInv, TypeOK, ReplicaHonest
<1>5. CASE replica' = replica /\ replica[c].st = "ready" /\ placed' = placed \cup {c}
  BY <1>1, <1>5 DEF IInv, TypeOK, ReplicaHonest
<1> QED BY <1>3, <1>4, <1>5

\* A replica is deleted that no unsettled build names.
LEMMA DeleteKeeps ==
  ASSUME IInv, NEW c \in Computes, DeleteTemplateSourceReplica(c) PROVE IInv'
<1>1. PICK bs : bs = Released(build, c)
  OBVIOUS
<1>2. /\ build' = bs /\ replica' = [replica EXCEPT ![c] = NoReplica] /\ c \notin placed
      /\ UNCHANGED <<job, run, late, vc, placed>>
      /\ \A b \in Builds : (build[b].source = c \/ (build[b].result /\ build[b].compute = c)) => Terminal(b)
  BY <1>1 DEF DeleteTemplateSourceReplica
<1>3. /\ bs \in [Builds -> Build]
      /\ \A a \in Builds :
               /\ Honest(bs[a], job[a], run[a], late[a], vc[a])
               /\ bs[a].compute = build[a].compute /\ bs[a].status = build[a].status
               /\ bs[a].result = build[a].result
               /\ bs[a] # build[a] => Terminal(a) /\ build[a].source = c /\ bs[a].source = None
  BY <1>1, ReleasedFacts
<1>4. \A a \in Builds : RowHonest(build[a], replica)
  BY DEF IInv
<1>5. \A a \in Builds : Terminal(a) => build[a].status \notin Running /\ ~build[a].result
  BY <1>4 DEF Terminal, RowHonest, Running
<1>6. /\ job' \in [Builds -> Jobs] /\ run' \in [Builds -> Calls \cup {"idle", "step", "end"}]
      /\ late' \in [Builds -> SUBSET Calls] /\ vc' \in [Builds -> VMs] /\ placed' = placed
      /\ \A a \in Builds : Honest(bs[a], job'[a], run'[a], late'[a], vc'[a])
  BY <1>2, <1>3 DEF IInv, TypeOK
<1>7. \A a \in Builds :
            /\ bs[a].compute = build[a].compute
            /\ bs[a].status \in Running => build[a].status \in Running /\ bs[a].source = build[a].source
            /\ build[a].status = "ready" => bs[a].status = "ready"
            /\ bs[a].status # "none" => build[a].status # "none"
            /\ bs[a].result => bs[a].status \notin {"none", "retired"}
  BY <1>3, <1>4, <1>5 DEF RowHonest
<1>8. \A a \in Builds : /\ bs[a].compute = c => ~bs[a].result
                        /\ bs[a].compute # c => bs[a].result = build[a].result
                        /\ bs[a].status \in Running => bs[a].source # c
  BY <1>2, <1>3, <1>5
<1> QED BY <1>2, <1>3, <1>6, <1>7, <1>8, ForgetKeeps

\* A build is admitted with nothing sent, on a ready anchor.
LEMMA CreateKeeps ==
  ASSUME IInv, NEW b \in Builds, NEW src \in Computes, NEW dst \in Computes,
         CreateTemplateReplicaBuild(b, src, dst)
  PROVE  IInv'
<1>1. PICK row, new, k : row = build[b] /\ k = [job[b] EXCEPT !.st = "pending"]
                         /\ new = [NoBuild EXCEPT !.status = "pending", !.phase = "pending",
                                                  !.source = src, !.compute = dst]
  OBVIOUS
<1>2. /\ row.status = "none" /\ replica[src].st = "ready"
      /\ build' = [build EXCEPT ![b] = new] /\ job' = [job EXCEPT ![b].st = "pending"]
      /\ UNCHANGED <<run, late, vc, replica, placed>>
  BY <1>1 DEF CreateTemplateReplicaBuild
<1>3. /\ row \in Build /\ job[b] \in Jobs /\ late[b] \in SUBSET Calls /\ vc[b] \in VMs
      /\ run[b] \in Calls \cup {"idle", "step", "end"}
      /\ Honest(row, job[b], run[b], late[b], vc[b]) /\ job \in [Builds -> Jobs]
  BY <1>1, OneBuild DEF Typed, IInv, TypeOK
<1>4. /\ new \in Build /\ new.status = "pending" /\ new.phase = "pending" /\ new.resume = "pending"
      /\ new.source = src /\ new.compute = dst /\ ~new.result /\ ~new.dest /\ ~new.cleaned
  BY <1>1 DEF NoBuild, Build, Active, Phases, Forward
<1>5. /\ row = NoBuild /\ job[b].st = "none" /\ late[b] = {}
      /\ \A x \in Created : Unsent(run[b], late[b], vc[b], x)
      /\ run[b] = "idle" /\ ~Residual(run[b], late[b], vc[b])
  <2>1. row = NoBuild /\ job[b].st = "none" /\ late[b] = {} /\ run[b] = "idle"
        /\ \A x \in Created : Unsent(run[b], late[b], vc[b], x)
    BY <1>2, <1>3 DEF Honest, RunFollows
  <2>2. ~Residual(run[b], late[b], vc[b])
    BY <1>2, <1>3 DEF Honest, ResidueIsOver
  <2> QED BY <2>1, <2>2
<1>6. k \in Jobs /\ k.st = "pending" /\ k.cleanup = job[b].cleanup
  BY <1>1, <1>3 DEF Jobs
<1>7. row.result = new.result
  BY <1>4, <1>5, BuildType DEF NoBuild
<1>8. ~k.cleanup
  BY <1>2, <1>3, <1>6 DEF Honest, RunFollows
<1>9. Honest(new, k, "idle", late[b], vc[b])
  <2>1. ArmedOnce("idle", late[b], vc[b])
    BY <1>3, <1>5 DEF Honest
  <2>2. RunFollows(new, k, "idle", late[b], vc[b])
    BY <1>4, <1>6, <1>8 DEF RunFollows, Calls, Running, Forward
  <2>3. ResidueIsOver(new, "idle", late[b], vc[b])
    BY <1>5 DEF ResidueIsOver
  <2>4. PhaseIsTrue(new, "idle", late[b], vc[b])
    BY <1>4, <1>5 DEF PhaseIsTrue, Created, BeforeClone, BeforeSeal, BeforeCanary
  <2>5. ResumeIsSafe(new, k, "idle", late[b], vc[b])
    BY <1>4, <1>5, <1>6 DEF ResumeIsSafe, Created, BeforeClone
  <2>6. AcceptedIsSound(new, k, "idle", vc[b])
    BY <1>4 DEF AcceptedIsSound
  <2> QED BY <2>1, <2>2, <2>3, <2>4, <2>5, <2>6 DEF Honest
<1>10. Becomes(b, new, k, "idle", late[b], vc[b]) /\ Typed(new, k, "idle", late[b], vc[b])
  BY <1>1, <1>2, <1>3, <1>4, <1>5, <1>6, OneBuild DEF Becomes, Typed, Jobs
<1> QED
  BY <1>1, <1>2, <1>4, <1>7, <1>9, <1>10, NoneApart, StepKeeps

\* The job an operator links anew.
LEMMA RelinkedJob ==
  ASSUME IInv, NEW b \in Builds, NEW cleanup \in BOOLEAN, Restartable(b), Relinked(b, cleanup)
  PROVE  \E k \in Jobs : /\ job' = [job EXCEPT ![b] = k] /\ k.st = "pending" /\ k.cleanup = cleanup
                         /\ run[b] = "idle" /\ job[b].st = "ended" /\ build[b].source # None
                         /\ build[b].status # "none"
<1>1. PICK k : k = [st |-> "pending", cleanup |-> cleanup, tries |-> 0, restarts |-> job[b].restarts + 1]
  OBVIOUS
<1>2. job[b] \in Jobs /\ job[b].st = "ended" /\ job[b].restarts < MaxRestarts /\ build[b].source # None
  BY OneBuild DEF Typed, Restartable
<1>3. job[b].restarts + 1 \in 0 .. MaxRestarts /\ 0 \in 0 .. MaxRetries
  BY <1>2, JobType, BoundsAreNat
<1>4. k \in Jobs /\ k.st = "pending" /\ k.cleanup = cleanup
  BY <1>1, <1>3 DEF Jobs
<1>5. run[b] = "idle" /\ build[b].status # "none"
  BY <1>2, OneBuild DEF Honest, RunFollows
<1> QED BY <1>1, <1>2, <1>4, <1>5 DEF Relinked

\* A retried build has no VM on record, so it resumes before the clone's end.
LEMMA RetryKeeps ==
  ASSUME IInv, NEW b \in Builds, RetryTemplateReplicaBuild(b) PROVE IInv'
<1>1. PICK k \in Jobs : /\ job' = [job EXCEPT ![b] = k] /\ k.st = "pending" /\ k.cleanup = FALSE
                        /\ run[b] = "idle" /\ job[b].st = "ended" /\ build[b].source # None
                        /\ build[b].status # "none"
  BY RelinkedJob DEF RetryTemplateReplicaBuild
<1>2. PICK row, new : row = build[b] /\ new = [row EXCEPT !.status = "running", !.phase = row.resume, !.code = ""]
  OBVIOUS
<1>3. /\ row \in Build /\ late[b] \in SUBSET Calls /\ vc[b] \in VMs /\ row.resume \in Forward
      /\ Honest(row, job[b], "idle", late[b], vc[b]) /\ RowHonest(row, replica)
  BY <1>1, <1>2, OneBuild, BuildType DEF Typed
<1>4. /\ row.status = "failed" /\ ~row.cleaned /\ replica[row.source].st = "ready"
      /\ UNCHANGED <<run, late, vc, replica, placed>>
  BY <1>2 DEF RetryTemplateReplicaBuild, AnchorReady
<1>5. build' = [build EXCEPT ![b] = new]
  BY <1>2 DEF RetryTemplateReplicaBuild, IInv, TypeOK, Build
<1>6. /\ new \in Build /\ new.status = "running" /\ new.phase = row.resume /\ new.resume = row.resume
      /\ new.dest = row.dest /\ new.cleaned = row.cleaned /\ new.result = row.result
      /\ new.compute = row.compute /\ new.source = row.source
  BY <1>2, <1>3 DEF Build, Active, Phases
<1>7. ~row.dest
  BY <1>1, <1>3, <1>4 DEF Honest, ResumeIsSafe
<1>8. Honest(new, k, "idle", late[b], vc[b])
  <2>1. ArmedOnce("idle", late[b], vc[b])
    BY <1>3 DEF Honest
  <2>2. RunFollows(new, k, "idle", late[b], vc[b])
    BY <1>1, <1>3, <1>6 DEF RunFollows, Calls, Running
  <2>3. ResidueIsOver(new, "idle", late[b], vc[b])
    BY <1>3, <1>7 DEF Honest, ResidueIsOver
  <2>4. PhaseIsTrue(new, "idle", late[b], vc[b])
    <3>1. /\ row.resume \in BeforeClone
          /\ Unsent("idle", late[b], vc[b], "snapshot") /\ Unsent("idle", late[b], vc[b], "canary")
          /\ row.resume = "pending" => Unsent("idle", late[b], vc[b], "clone")
      BY <1>3, <1>4, <1>7 DEF Honest, ResumeIsSafe
    <3>2. new.phase \in BeforeClone /\ ~new.dest
      BY <3>1, <1>6, <1>7
    <3>3. /\ new.phase \in BeforeSeal /\ new.phase # "finalizing"
          /\ new.phase \in BeforeSeal \cup {"snapshot_submitting", "snapshot_submitted"}
      BY <3>2 DEF BeforeSeal, BeforeClone
    <3> QED BY <1>6, <3>1, <3>2, <3>3 DEF PhaseIsTrue
  <2>5. ResumeIsSafe(new, k, "idle", late[b], vc[b])
    BY <1>3, <1>6 DEF Honest, ResumeIsSafe
  <2>6. AcceptedIsSound(new, k, "idle", vc[b])
    BY <1>6 DEF AcceptedIsSound
  <2> QED BY <2>1, <2>2, <2>3, <2>4, <2>5, <2>6 DEF Honest
<1>9. Becomes(b, new, k, "idle", late[b], vc[b]) /\ Typed(new, k, "idle", late[b], vc[b])
  BY <1>1, <1>3, <1>4, <1>5, <1>6, OneBuild DEF Becomes, Typed
<1>10. new.compute # None /\ new.source # None /\ replica[new.source].st = "ready"
  BY <1>1, <1>2, <1>3, <1>4, <1>6 DEF RowHonest
<1> QED
  BY <1>2, <1>4, <1>6, <1>8, <1>9, <1>10, StepKeeps

\* An operator asks for the cleanup of a failed build.
LEMMA CleanupRequestKeeps ==
  ASSUME IInv, NEW b \in Builds, CleanupTemplateReplicaBuild(b) PROVE IInv'
<1>1. PICK k \in Jobs : /\ job' = [job EXCEPT ![b] = k] /\ k.st = "pending" /\ k.cleanup = TRUE
                        /\ run[b] = "idle" /\ job[b].st = "ended" /\ build[b].source # None
                        /\ build[b].status # "none"
  BY RelinkedJob DEF CleanupTemplateReplicaBuild
<1>2. PICK row, new : row = build[b]
                      /\ new = [row EXCEPT !.status = "cleanup_required", !.phase = row.resume, !.code = ""]
  OBVIOUS
<1>3. /\ row \in Build /\ late[b] \in SUBSET Calls /\ vc[b] \in VMs /\ row.resume \in Forward
      /\ Honest(row, job[b], "idle", late[b], vc[b]) /\ RowHonest(row, replica)
  BY <1>1, <1>2, OneBuild, BuildType DEF Typed
<1>4. /\ row.status \in {"failed", "cleanup_required"}
      /\ UNCHANGED <<run, late, vc, replica, placed>>
  BY <1>2 DEF CleanupTemplateReplicaBuild
<1>5. build' = [build EXCEPT ![b] = new]
  BY <1>2 DEF CleanupTemplateReplicaBuild, IInv, TypeOK, Build
<1>6. /\ new \in Build /\ new.status = "cleanup_required" /\ new.phase = row.resume /\ new.resume = row.resume
      /\ new.dest = row.dest /\ new.cleaned = row.cleaned /\ new.result = row.result
      /\ new.compute = row.compute /\ new.source = row.source
  BY <1>2, <1>3 DEF Build, Active, Phases
<1>8. Honest(new, k, "idle", late[b], vc[b])
  <2>1. ArmedOnce("idle", late[b], vc[b])
    BY <1>3 DEF Honest
  <2>2. RunFollows(new, k, "idle", late[b], vc[b])
    BY <1>1, <1>3, <1>6 DEF RunFollows, Calls, Running
  <2>3. ResidueIsOver(new, "idle", late[b], vc[b])
    BY <1>3, <1>6 DEF Honest, ResidueIsOver, Running
  <2>4. PhaseIsTrue(new, "idle", late[b], vc[b])
    BY <1>6 DEF PhaseIsTrue, Running
  <2>5. ResumeIsSafe(new, k, "idle", late[b], vc[b])
    BY <1>3, <1>4, <1>6 DEF Honest, ResumeIsSafe
  <2>6. AcceptedIsSound(new, k, "idle", vc[b])
    BY <1>6 DEF AcceptedIsSound
  <2> QED BY <2>1, <2>2, <2>3, <2>4, <2>5, <2>6 DEF Honest
<1>9. Becomes(b, new, k, "idle", late[b], vc[b]) /\ Typed(new, k, "idle", late[b], vc[b])
  BY <1>1, <1>3, <1>4, <1>5, <1>6, OneBuild DEF Becomes, Typed
<1>10. new.compute # None /\ new.status \notin Running
  BY <1>3, <1>4, <1>6 DEF RowHonest, Running
<1> QED
  BY <1>2, <1>4, <1>6, <1>8, <1>9, <1>10, StepKeeps

\* An accepted build is retired when nothing runs from its result.
LEMMA RetireKeeps ==
  ASSUME IInv, NEW b \in Builds, RetireReadyBuild(b) PROVE IInv'
<1>1. PICK k \in Jobs : /\ job' = [job EXCEPT ![b] = k] /\ k.st = "pending" /\ k.cleanup = TRUE
                        /\ run[b] = "idle" /\ job[b].st = "ended" /\ build[b].source # None
                        /\ build[b].status # "none"
  BY RelinkedJob DEF RetireReadyBuild
<1>2. PICK row, c, new : /\ row = build[b] /\ c = row.compute
                         /\ new = [row EXCEPT !.status = "retiring", !.phase = "residue_prepared",
                                              !.cleaned = FALSE, !.code = "other"]
  OBVIOUS
<1>3. /\ row \in Build /\ late[b] \in SUBSET Calls /\ vc[b] \in VMs
      /\ Honest(row, job[b], "idle", late[b], vc[b]) /\ RowHonest(row, replica)
  BY <1>1, <1>2, OneBuild DEF Typed
<1>4. /\ row.status \in {"ready", "retiring"} /\ row.result /\ row.dest
      /\ c \notin placed /\ Dependents(c) \ {b} = {}
      /\ replica' = [replica EXCEPT ![c].st = "disabled"]
      /\ UNCHANGED <<run, late, vc, placed>>
  BY <1>2 DEF RetireReadyBuild
<1>5. build' = [build EXCEPT ![b] = new]
  BY <1>2 DEF RetireReadyBuild, IInv, TypeOK, Build
<1>6. /\ new \in Build /\ new.status = "retiring" /\ new.phase = "residue_prepared" /\ new.resume = row.resume
      /\ new.dest = row.dest /\ new.result = row.result
      /\ new.compute = row.compute /\ new.source = row.source
  BY ZenonT(60), <1>2, <1>3 DEF Build, Active, Phases, Residue
<1>7. c \in Computes
  BY <1>2, <1>3, <1>4, BuildType DEF RowHonest
<1>8. Honest(new, k, "idle", late[b], vc[b])
  <2>1. ArmedOnce("idle", late[b], vc[b])
    BY <1>3 DEF Honest
  <2>2. RunFollows(new, k, "idle", late[b], vc[b])
    BY <1>1, <1>3, <1>6 DEF RunFollows, Calls, Running
  <2>3. ResidueIsOver(new, "idle", late[b], vc[b])
    BY <1>4, <1>6 DEF ResidueIsOver, Running
  <2>4. PhaseIsTrue(new, "idle", late[b], vc[b])
    BY <1>6 DEF PhaseIsTrue, Running
  <2>5. ResumeIsSafe(new, k, "idle", late[b], vc[b])
    BY <1>4, <1>6 DEF ResumeIsSafe
  <2>6. AcceptedIsSound(new, k, "idle", vc[b])
    BY <1>6 DEF AcceptedIsSound
  <2> QED BY <2>1, <2>2, <2>3, <2>4, <2>5, <2>6 DEF Honest
<1>9. Becomes(b, new, k, "idle", late[b], vc[b]) /\ Typed(new, k, "idle", late[b], vc[b])
  BY <1>1, <1>3, <1>4, <1>5, <1>6, OneBuild DEF Becomes, Typed
<1>10. /\ build' \in [Builds -> Build] /\ job' \in [Builds -> Jobs]
       /\ run' \in [Builds -> Calls \cup {"idle", "step", "end"}]
       /\ late' \in [Builds -> SUBSET Calls] /\ vc' \in [Builds -> VMs]
       /\ build'[b] = new
       /\ \A a \in Builds \ {b} : build'[a] = build[a]
       /\ \A a \in Builds : Honest(build'[a], job'[a], run'[a], late'[a], vc'[a])
  BY <1>8, <1>9, OthersHonest
<1>11. /\ \A a \in Builds : build[a] \in Build /\ RowHonest(build[a], replica)
       /\ \A d \in Computes : ReplicaHonest(d)
       /\ replica \in [Computes -> Replica] /\ placed \subseteq Computes
       /\ \A d \in Computes : replica[d].of \in Builds \cup {None}
  BY DEF IInv, TypeOK, Replica
<1>12. /\ replica' \in [Computes -> Replica]
       /\ replica'[c].st = "disabled" /\ replica'[c].of = replica[c].of
       /\ \A d \in Computes \ {c} : replica'[d] = replica[d]
  BY <1>4, <1>7, <1>11, Restated
<1>13. ASSUME NEW a \in Builds PROVE RowHonest(build'[a], replica')
  <2>1. CASE a = b
    BY <2>1, <1>2, <1>4, <1>6, <1>7, <1>10, NoneApart DEF RowHonest, Running
  <2>2. CASE a # b
    <3>1. build[a].status \in Running => build[a].source # c
      BY <2>2, <1>4 DEF Dependents, Terminal, Running
    <3>2. build[a].source \in Computes \cup {None}
      BY <1>11, BuildType
    <3> QED BY <2>2, <3>1, <3>2, <1>10, <1>11, <1>12 DEF RowHonest
  <2> QED BY <2>1, <2>2
<1>14. ASSUME NEW d \in Computes PROVE ReplicaHonest(d)'
  <2>1. \A a \in Builds : build'[a].result = build[a].result /\ build'[a].compute = build[a].compute
    BY <1>2, <1>6, <1>10
  <2>2. CASE d = c
    BY <2>1, <2>2, <1>4, <1>11, <1>12 DEF ReplicaHonest
  <2>3. CASE d # c
    <3>1. replica[d].of # b
      BY <2>3, <1>2, <1>11 DEF ReplicaHonest
    <3> QED BY <2>1, <2>3, <3>1, <1>4, <1>10, <1>11, <1>12 DEF ReplicaHonest
  <2> QED BY <2>2, <2>3
<1> QED
  BY <1>4, <1>10, <1>11, <1>12, <1>13, <1>14 DEF IInv, TypeOK

-----------------------------------------------------------------------------
(***************************************************************************)
(* The theorems.                                                            *)
(***************************************************************************)

\* No build, and the build accepted before, are honest.
LEMMA InitHonest ==
  ASSUME NEW src \in Computes, NEW dst \in Computes
  PROVE  /\ NoBuild \in Build /\ AcceptedBuild(src, dst) \in Build
         /\ NoVMs \in VMs /\ AcceptedVMs \in VMs
         /\ \A j \in Jobs : j.st = "none" /\ ~j.cleanup => Honest(NoBuild, j, "idle", {}, NoVMs)
         /\ \A j \in Jobs : j.st = "ended" /\ ~j.cleanup =>
               Honest(AcceptedBuild(src, dst), j, "idle", {}, AcceptedVMs)
<1>1. PICK n, a, v, w : n = NoBuild /\ a = AcceptedBuild(src, dst) /\ v = NoVMs /\ w = AcceptedVMs
  OBVIOUS
<1>2. /\ n \in Build /\ n.status = "none" /\ n.phase = "none" /\ n.resume = "pending"
      /\ ~n.dest /\ ~n.result /\ ~n.cleaned /\ n.source = None
  BY <1>1 DEF NoBuild, Build, Phases, Forward
<1>3. /\ a \in Build /\ a.status = "ready" /\ a.phase = "ready" /\ a.resume = "pending"
      /\ a.dest /\ a.result /\ ~a.cleaned /\ a.source = src
  BY <1>1 DEF AcceptedBuild, NoBuild, Build, Phases, Forward
<1>4. /\ v \in VMs /\ v.clone = "none" /\ v.snapshot = "none" /\ v.canary = "none"
      /\ \A x \in Created : v.submits[x] = 0
  <2>1. PICK s : s = [x \in Created |-> 0]
    OBVIOUS
  <2>2. s \in [Created -> 0 .. 2] /\ \A x \in Created : s[x] = 0
    BY <2>1
  <2>3. v = [clone |-> "none", canary |-> "none", snapshot |-> "none", facts |-> "exact", submits |-> s]
    BY <1>1, <2>1 DEF NoVMs
  <2> QED BY <2>2, <2>3, FactsNamed DEF VMs, VMStates
<1>5. /\ w \in VMs /\ w.clone = "exists" /\ w.snapshot = "exists" /\ w.canary = "gone" /\ w.facts = "exact"
      /\ \A x \in Created : w.submits[x] = 1
  <2>1. PICK s : s = [x \in Created |-> 1]
    OBVIOUS
  <2>2. s \in [Created -> 0 .. 2] /\ \A x \in Created : s[x] = 1
    BY <2>1
  <2>3. w = [clone |-> "exists", canary |-> "gone", snapshot |-> "exists", facts |-> "exact", submits |-> s]
    BY <1>1, <2>1 DEF AcceptedVMs
  <2> QED BY <2>2, <2>3, FactsNamed DEF VMs, VMStates
<1>6. /\ v["clone"] = v.clone /\ v["canary"] = v.canary /\ v["snapshot"] = v.snapshot
      /\ w["clone"] = w.clone /\ w["canary"] = w.canary /\ w["snapshot"] = w.snapshot
  BY <1>4, <1>5, VMType
<1>7. ASSUME NEW j \in Jobs, j.st = "none", ~j.cleanup PROVE Honest(n, j, "idle", {}, v)
  <2>1. ArmedOnce("idle", {}, v)
    BY <1>4, <1>6 DEF ArmedOnce, Created
  <2>2. RunFollows(n, j, "idle", {}, v)
    BY <1>1, <1>2, <1>4, <1>7 DEF RunFollows, Calls, Running, Forward, Unsent, Created
  <2>3. ResidueIsOver(n, "idle", {}, v)
    BY <1>4 DEF ResidueIsOver, Residual
  <2>4. PhaseIsTrue(n, "idle", {}, v) /\ AcceptedIsSound(n, j, "idle", v)
    BY <1>2 DEF PhaseIsTrue, AcceptedIsSound, Running
  <2>5. ResumeIsSafe(n, j, "idle", {}, v)
    BY <1>2, <1>4 DEF ResumeIsSafe, Unsent, Created, BeforeClone
  <2> QED BY <2>1, <2>2, <2>3, <2>4, <2>5 DEF Honest
<1>8. ASSUME NEW j \in Jobs, j.st = "ended", ~j.cleanup PROVE Honest(a, j, "idle", {}, w)
  <2>1. ArmedOnce("idle", {}, w)
    BY <1>5, <1>6 DEF ArmedOnce, Created
  <2>2. RunFollows(a, j, "idle", {}, w)
    BY <1>3, <1>8 DEF RunFollows, Calls, Running, Forward
  <2>3. ResidueIsOver(a, "idle", {}, w)
    BY <1>5 DEF ResidueIsOver, Residual
  <2>4. PhaseIsTrue(a, "idle", {}, w) /\ AcceptedIsSound(a, j, "idle", w)
    BY <1>3, <1>5, <1>8, NoneApart DEF PhaseIsTrue, AcceptedIsSound, Running, Calls
  <2>5. ResumeIsSafe(a, j, "idle", {}, w)
    BY <1>3 DEF ResumeIsSafe, BeforeClone
  <2> QED BY <2>1, <2>2, <2>3, <2>4, <2>5 DEF Honest
<1> QED BY <1>1, <1>2, <1>3, <1>4, <1>5, <1>7, <1>8

\* The invariant holds at the start.
LEMMA InitKeeps == Init => IInv
<1> SUFFICES ASSUME Init PROVE IInv
  OBVIOUS
<1>1. PICK src, dst \in Computes :
      /\ src # dst
      /\ build = [b \in Builds |-> IF b \in Accepted THEN AcceptedBuild(src, dst) ELSE NoBuild]
      /\ job = [b \in Builds |-> [st |-> IF b \in Accepted THEN "ended" ELSE "none",
                                  cleanup |-> FALSE, tries |-> 0, restarts |-> 0]]
      /\ run = [b \in Builds |-> "idle"]
      /\ late = [b \in Builds |-> {}]
      /\ vc = [b \in Builds |-> IF b \in Accepted THEN AcceptedVMs ELSE NoVMs]
      /\ replica = [c \in Computes |->
                      IF c = src THEN [st |-> "ready", of |-> None]
                      ELSE IF c = dst /\ Accepted # {} THEN [st |-> "ready", of |-> CHOOSE b \in Accepted : TRUE]
                      ELSE NoReplica]
      /\ placed = {}
  BY DEF Init
<1>2. PICK acc : acc = AcceptedBuild(src, dst)
  OBVIOUS
<1>3. /\ acc \in Build /\ acc.result /\ acc.compute = dst /\ acc.status = "ready" /\ acc.source = src
  BY <1>2 DEF AcceptedBuild, NoBuild, Build, Phases, Forward
<1>4. NoBuild \in Build /\ ~NoBuild.result /\ NoBuild.status = "none"
  BY DEF NoBuild, Build, Phases, Forward
<1>5. 0 \in 0 .. MaxRetries /\ 0 \in 0 .. MaxRestarts
  BY BoundsAreNat
<1>6. \A b \in Builds : /\ job[b] \in Jobs /\ ~job[b].cleanup
                        /\ b \in Accepted => job[b].st = "ended"
                        /\ b \notin Accepted => job[b].st = "none"
  BY <1>1, <1>5 DEF Jobs
<1>7. \A b \in Builds : /\ build[b] \in Build /\ vc[b] \in VMs /\ run[b] = "idle" /\ late[b] = {}
                        /\ Honest(build[b], job[b], run[b], late[b], vc[b])
                        /\ b \in Accepted => build[b] = acc
                        /\ b \notin Accepted => build[b] = NoBuild
  BY <1>1, <1>2, <1>6, InitHonest
<1>8. PICK first : first = CHOOSE b \in Accepted : TRUE
  OBVIOUS
<1>9. Accepted # {} => first \in Accepted /\ Accepted = {first} /\ first \in Builds
  BY <1>8, OneAccepted
<1>10. /\ \A c \in Computes : replica[c] \in Replica
       /\ replica[src].st = "ready" /\ replica[src].of = None
       /\ Accepted # {} => replica[dst].st = "ready" /\ replica[dst].of = first
       /\ Accepted = {} => replica[dst].st = "none" /\ replica[dst].of = None
       /\ \A c \in Computes \ {src, dst} : replica[c].st = "none" /\ replica[c].of = None
  <2>1. [st |-> "ready", of |-> None] \in Replica /\ NoReplica \in Replica
        /\ (Accepted # {} => [st |-> "ready", of |-> first] \in Replica)
    BY <1>9 DEF Replica, NoReplica
  <2>2. /\ replica[src] = [st |-> "ready", of |-> None]
        /\ Accepted # {} => replica[dst] = [st |-> "ready", of |-> first]
        /\ Accepted = {} => replica[dst] = NoReplica
        /\ \A c \in Computes \ {src, dst} : replica[c] = NoReplica
    BY <1>1, <1>8
  <2>3. NoReplica.st = "none" /\ NoReplica.of = None
    BY DEF NoReplica
  <2>4. \A c \in Computes : replica[c] \in Replica
    BY <2>1, <2>2
  <2> QED BY <2>2, <2>3, <2>4
<1>11. TypeOK
  BY <1>1, <1>6, <1>7, <1>10 DEF TypeOK
<1>12. \A b \in Builds : RowHonest(build[b], replica)
  BY <1>3, <1>4, <1>7, NoneApart DEF RowHonest, Running
<1>13. \A c \in Computes : ReplicaHonest(c)
  <2>1. TAKE c \in Computes
  <2>2. \A b \in Builds : build[b].result <=> b \in Accepted
    BY <1>3, <1>4, <1>7
  <2>3. \A b \in Accepted : build[b].compute = dst /\ build[b].status = "ready"
    BY <1>3, <1>7, OneAccepted
  <2>4. \A b \in Builds : replica[c].of = b <=> build[b].result /\ build[b].compute = c
    BY ZenonT(60), <1>1, <1>9, <1>10, <2>2, <2>3, NoneApart
  <2>5. replica[c].st = "none" => replica[c].of = None
    BY <1>10
  <2>6. replica[c].st = "ready" /\ replica[c].of # None => build[replica[c].of].status = "ready"
    BY <1>9, <1>10, <2>3
  <2> QED BY <1>1, <2>4, <2>5, <2>6 DEF ReplicaHonest
<1> QED BY <1>7, <1>11, <1>12, <1>13 DEF IInv

\* Every step keeps the invariant.
LEMMA NextKeeps == IInv /\ [Next]_vars => IInv'
<1> SUFFICES ASSUME IInv, [Next]_vars PROVE IInv'
  OBVIOUS
<1>1. CASE Operator
  <2>1. ASSUME NEW c \in Computes,
               \/ AdminCreateTemplateSourceReplica(c) \/ PlaceVM(c) \/ ReleasePlacement(c)
        PROVE  IInv'
    BY <2>1, RegistryKeeps DEF AdminCreateTemplateSourceReplica, PlaceVM, ReleasePlacement, Exists
  <2> QED BY <1>1, <2>1, DeleteKeeps, CreateKeeps, RetryKeeps, CleanupRequestKeeps, RetireKeeps DEF Operator
<1>2. ASSUME NEW b \in Builds, Worker(b) PROVE IInv'
  BY <1>2, ClaimKeeps, JobEndsKeeps, CallKeeps, StartCloneKeeps, ReconcileCloneKeeps, WaitCloneKeeps,
     EnsurePendingKeeps, StartSnapshotKeeps, ReconcileSnapshotKeeps, WaitSnapshotKeeps, StartCanaryKeeps,
     ReconcileCanaryKeeps, WaitCanaryKeeps, StartCanaryCleanupKeeps, WaitCanaryCleanupKeeps, FinalizeKeeps,
     RunEndedKeeps, CleanupUnknownCanaryKeeps, CleanupCanaryKeeps, CleanupUnknownCloneKeeps, CleanupCloneKeeps
     DEF Worker
<1>3. CASE UNCHANGED vars
  BY <1>3 DEF vars, IInv, TypeOK, ReplicaHonest
<1> QED
  BY <1>1, <1>2, <1>3, LeaseLostKeeps, LateCallKeeps, TaskKeeps DEF Next

\* The inductive invariant holds in every reachable state of every instance.
THEOREM BuildInvariant == Spec => []IInv
BY InitKeeps, NextKeeps, PTL DEF Spec

\* The types of the rows, runs and VMs.
THEOREM BuildTypes == Spec => []TypeOK
<1>1. IInv => TypeOK
  BY DEF IInv
<1> QED BY <1>1, BuildInvariant, PTL

\* clone, snapshot and canary creation reach vCenter once for a build, although
\* answers are lost, leases expire with a call armed, and operators restart
\* builds (armReplicaBuild before each submission, the phase it saves).
THEOREM BuildNeverResubmits == Spec => []NeverResubmitted
<1>1. IInv => NeverResubmitted
  <2> SUFFICES ASSUME IInv, NEW b \in Builds, NEW x \in DOMAIN vc[b].submits
               PROVE  vc[b].submits[x] <= 1
    BY DEF NeverResubmitted
  <2>1. vc[b].submits \in [Created -> 0 .. 2] /\ ArmedOnce(run[b], late[b], vc[b])
    BY OneBuild, VMType DEF Typed, Honest
  <2>2. x \in Created
    BY <2>1
  <2> QED BY <2>1, <2>2 DEF ArmedOnce
<1> QED BY <1>1, BuildInvariant, PTL

\* What can be selected was accepted and still stands.
LEMMA ReadyStands ==
  ASSUME IInv, NEW c \in Computes, replica[c].st = "ready", replica[c].of # None
  PROVE  /\ replica[c].of \in Builds /\ build[replica[c].of].status = "ready"
         /\ vc[replica[c].of].clone = "exists" /\ vc[replica[c].of].facts = "exact"
         /\ vc[replica[c].of].snapshot = "exists" /\ vc[replica[c].of].canary = "gone"
<1>1. PICK b : b = replica[c].of
  OBVIOUS
<1>2. b \in Builds /\ build[b].status = "ready"
  BY <1>1 DEF IInv, TypeOK, Replica, ReplicaHonest
<1>3. AcceptedIsSound(build[b], job[b], run[b], vc[b])
  BY <1>2, OneBuild DEF Honest
<1> QED BY <1>1, <1>2, <1>3 DEF AcceptedIsSound

\* A replica that a build made becomes selectable, and stays so, only with its
\* retained VM exact and sealed and its canary gone (FinalizeTemplateReplicaBuild).
THEOREM BuildReadyIsAccepted == Spec => []ReadyIsAccepted
<1>1. IInv => ReadyIsAccepted
  BY ReadyStands DEF ReadyIsAccepted
<1> QED BY <1>1, BuildInvariant, PTL

\* Retirement, admission, restart and placement exclude each other: the source
\* of a placement or of a running build is there to be copied.
THEOREM BuildSourceLives == Spec => []SourceLives
<1>1. IInv => SourceLives
  <2> SUFFICES ASSUME IInv, NEW c \in Computes,
                      \/ c \in placed
                      \/ \E b \in Builds : build[b].source = c /\ build[b].status \in {"pending", "running"}
               PROVE  Exists(c) /\ (replica[c].of # None => vc[replica[c].of].clone = "exists")
    BY DEF SourceLives
  <2>1. replica[c].st = "ready"
    BY DEF IInv, ReplicaHonest, RowHonest, Running
  <2> QED BY <2>1, ReadyStands DEF Exists
<1> QED BY <1>1, BuildInvariant, PTL


-----------------------------------------------------------------------------
(***************************************************************************)
(* What a cleanup records.                                                  *)
(***************************************************************************)

\* The row new of build b marks only what is proven.
MayMark(b, new) ==
    /\ new \in Build
    /\ new.cleaned => build[b].cleaned \/ ~build[b].dest \/ vc[b].clone = "gone"
    /\ new.cdone => build[b].cdone \/ ~build[b].canary \/ vc[b].canary = "gone"

\* A run saves such a row, or returns with one.
Marks(b) == \E new : MayMark(b, new) /\ (Save(b, new) \/ \E err : Returns(b, new, err))

\* Such a row makes the step one that cleans on proof.
LEMMA MarksProven ==
  ASSUME IInv, NEW b \in Builds, Marks(b) PROVE CleansOnProof
<1>1. PICK new : MayMark(b, new) /\ (Save(b, new) \/ \E err : Returns(b, new, err))
  BY DEF Marks
<1>2. PICK saved : build' = [build EXCEPT ![b] = saved] /\ saved.cleaned = new.cleaned /\ saved.cdone = new.cdone
  <2>1. CASE Save(b, new)
    BY <2>1 DEF Save
  <2>2. ASSUME NEW err, Returns(b, new, err)
        PROVE \E f : build' = [build EXCEPT ![b] = f] /\ f.cleaned = new.cleaned /\ f.cdone = new.cdone
    <3>1. PICK f : f = Failed(new, err)
      OBVIOUS
    <3>2. f.cleaned = new.cleaned /\ f.cdone = new.cdone
      BY <1>1, <3>1, FailedRow DEF MayMark
    <3>3. build' = [build EXCEPT ![b] = new] \/ build' = [build EXCEPT ![b] = f]
      BY <2>2, <3>1 DEF Returns, Save, FailTemplateReplicaBuild
    <3> QED BY <3>2, <3>3
  <2> QED BY <1>1, <2>1, <2>2
<1>3. build \in [Builds -> Build]
  BY DEF IInv, TypeOK
<1>4. /\ build'[b] = saved /\ \A a \in Builds \ {b} : build'[a] = build[a]
  BY <1>2, <1>3
<1> QED BY <1>1, <1>2, <1>4 DEF CleansOnProof, MayMark

\* The rows that runs write.
LEMMA RowsMayMark ==
  ASSUME IInv, NEW b \in Builds
  PROVE  /\ MayMark(b, build[b])
         /\ \A p \in Phases : MayMark(b, [build[b] EXCEPT !.phase = p])
         /\ \A p \in Phases : MayMark(b, [build[b] EXCEPT !.status = "running", !.phase = p])
         /\ \A p \in Phases : MayMark(b, [build[b] EXCEPT !.dest = TRUE, !.phase = p])
         /\ \A p \in Phases : MayMark(b, [build[b] EXCEPT !.snapshot = TRUE, !.phase = p])
         /\ \A p \in Phases : MayMark(b, [build[b] EXCEPT !.canary = TRUE, !.phase = p])
         /\ MayMark(b, [build[b] EXCEPT !.status = "ready", !.phase = "ready", !.code = ""])
         /\ MayMark(b, [build[b] EXCEPT !.result = TRUE])
         /\ MayMark(b, [build[b] EXCEPT !.dest = TRUE])
         /\ MayMark(b, [build[b] EXCEPT !.canary = TRUE])
         /\ \A p \in Phases : ~build[b].canary \/ vc[b].canary = "gone" =>
               MayMark(b, [build[b] EXCEPT !.cdone = TRUE, !.phase = p])
<1>1. PICK row : row = build[b]
  OBVIOUS
<1>2. row \in Build
  BY <1>1, OneBuild DEF Typed
<1>3. ASSUME NEW p \in Phases
      PROVE  /\ MayMark(b, [build[b] EXCEPT !.phase = p])
             /\ MayMark(b, [build[b] EXCEPT !.status = "running", !.phase = p])
             /\ MayMark(b, [build[b] EXCEPT !.dest = TRUE, !.phase = p])
             /\ MayMark(b, [build[b] EXCEPT !.snapshot = TRUE, !.phase = p])
             /\ MayMark(b, [build[b] EXCEPT !.canary = TRUE, !.phase = p])
             /\ ~build[b].canary \/ vc[b].canary = "gone" =>
                   MayMark(b, [build[b] EXCEPT !.cdone = TRUE, !.phase = p])
  BY ZenonT(60), <1>1, <1>2 DEF MayMark, Build, Active
<1>4. /\ MayMark(b, build[b])
      /\ MayMark(b, [build[b] EXCEPT !.status = "ready", !.phase = "ready", !.code = ""])
      /\ MayMark(b, [build[b] EXCEPT !.result = TRUE])
      /\ MayMark(b, [build[b] EXCEPT !.dest = TRUE])
      /\ MayMark(b, [build[b] EXCEPT !.canary = TRUE])
  <2>1. /\ MayMark(b, build[b])
        /\ MayMark(b, [build[b] EXCEPT !.result = TRUE])
        /\ MayMark(b, [build[b] EXCEPT !.dest = TRUE])
        /\ MayMark(b, [build[b] EXCEPT !.canary = TRUE])
    <3>1. MayMark(b, build[b])
      BY <1>1, <1>2 DEF MayMark
    <3>2. MayMark(b, [build[b] EXCEPT !.result = TRUE])
      BY <1>1, <1>2 DEF MayMark, Build
    <3>3. MayMark(b, [build[b] EXCEPT !.dest = TRUE])
      BY <1>1, <1>2 DEF MayMark, Build
    <3>4. MayMark(b, [build[b] EXCEPT !.canary = TRUE])
      BY <1>1, <1>2 DEF MayMark, Build
    <3> QED BY <3>1, <3>2, <3>3, <3>4
  <2>2. PICK new : new = [row EXCEPT !.status = "ready", !.phase = "ready", !.code = ""]
    OBVIOUS
  <2>3. new \in Build /\ new.cleaned = row.cleaned /\ new.cdone = row.cdone
    BY <1>2, <2>2 DEF Build, Phases
  <2> QED BY <1>1, <2>1, <2>2, <2>3 DEF MayMark
<1> QED BY <1>3, <1>4

\* A row that a run saves, or returns with.
LEMMA SavesMark ==
  ASSUME NEW b, NEW new, MayMark(b, new),
         \/ Advance(b, new) \/ Save(b, new) \/ \E call : Arm(b, new, call) \/ \E err : Returns(b, new, err)
  PROVE  Marks(b)
BY DEF Marks, Advance, Arm

\* The phases that runs write.
LEMMA PhasesWritten ==
  {"clone_submitting", "validating", "snapshot_submitting", "canary_prepared", "canary_submitting",
   "cleanup_prepared", "cleanup_submitting", "finalizing", "residue_prepared", "residue_submitting"} \subseteq Phases
BY DEF Phases, Forward, Residue

\* The steps of executeTemplateReplicaBuild mark nothing but a canary that is gone.
LEMMA ExecutionMarks ==
  ASSUME IInv, NEW b \in Builds,
         \/ StartReplicaBuildClone(b) \/ ReconcileClone(b) \/ EnsurePendingReplicaForBuild(b)
         \/ StartReplicaBuildSnapshot(b) \/ ReconcileSnapshot(b) \/ WaitReplicaBuildSnapshotTask(b)
         \/ StartReplicaBuildCanary(b) \/ ReconcileCanary(b) \/ WaitReplicaBuildCanaryTask(b)
         \/ FinalizeTemplateReplicaBuild(b) \/ RunEndedBuild(b)
  PROVE  Marks(b)
<1>0. ASSUME NEW err, Returns(b, build[b], err) PROVE Marks(b)
  BY <1>0, RowsMayMark, SavesMark
<1>1. CASE StartReplicaBuildClone(b)
  BY <1>0, <1>1, RowsMayMark, SavesMark, PhasesWritten, Zenon DEF StartReplicaBuildClone
<1>2. CASE ReconcileClone(b)
  BY <1>0, <1>2, RowsMayMark, SavesMark, PhasesWritten, Zenon DEF ReconcileClone, Unresolved
<1>3. CASE EnsurePendingReplicaForBuild(b)
  <2>1. build' = [build EXCEPT ![b].result = TRUE] => Save(b, [build[b] EXCEPT !.result = TRUE])
    BY DEF Save, IInv, TypeOK, Build
  <2> QED BY <1>0, <1>3, <2>1, RowsMayMark, SavesMark DEF EnsurePendingReplicaForBuild
<1>4. CASE StartReplicaBuildSnapshot(b)
  BY <1>0, <1>4, RowsMayMark, SavesMark, PhasesWritten, Zenon DEF StartReplicaBuildSnapshot
<1>5. CASE Sealed(b)
  BY <1>5, RowsMayMark, SavesMark, PhasesWritten, Zenon DEF Sealed
<1>6. CASE ReconcileSnapshot(b)
  BY <1>0, <1>5, <1>6 DEF ReconcileSnapshot, Unresolved
<1>7. CASE WaitReplicaBuildSnapshotTask(b)
  BY <1>0, <1>5, <1>7 DEF WaitReplicaBuildSnapshotTask
<1>8. CASE StartReplicaBuildCanary(b)
  BY <1>0, <1>8, RowsMayMark, SavesMark, PhasesWritten, Zenon DEF StartReplicaBuildCanary
<1>9. CASE CanaryFound(b)
  BY <1>9, RowsMayMark, SavesMark, PhasesWritten, Zenon DEF CanaryFound
<1>10. CASE ReconcileCanary(b)
  BY <1>0, <1>9, <1>10 DEF ReconcileCanary, Unresolved
<1>11. CASE WaitReplicaBuildCanaryTask(b)
  BY <1>0, <1>9, <1>11 DEF WaitReplicaBuildCanaryTask
<1>12. CASE FinalizeTemplateReplicaBuild(b)
  BY <1>0, <1>12, RowsMayMark, SavesMark DEF FinalizeTemplateReplicaBuild
<1>13. CASE RunEndedBuild(b)
  <2>1. UNCHANGED build => Save(b, build[b])
    BY DEF Save, IInv, TypeOK
  <2> QED BY <1>0, <1>13, <2>1, RowsMayMark, SavesMark DEF RunEndedBuild
<1> QED
  BY <1>1, <1>2, <1>3, <1>4, <1>6, <1>7, <1>8, <1>10, <1>11, <1>12, <1>13

\* A clone that is found, or that its failed task left behind.
LEMMA WaitCloneMarks ==
  ASSUME IInv, NEW b \in Builds, WaitReplicaBuildCloneTask(b) PROVE Marks(b)
<1>1. PICK row, dest, found, left :
      /\ row = build[b] /\ dest = [row EXCEPT !.dest = TRUE]
      /\ found = [dest EXCEPT !.phase = "validating"] /\ left = [dest EXCEPT !.result = TRUE]
  OBVIOUS
<1>2. row \in Build
  BY <1>1, OneBuild DEF Typed
<1>3. dest \in Build /\ dest.cleaned = row.cleaned /\ dest.cdone = row.cdone
  BY <1>1, <1>2 DEF Build
<1>4. found \in Build /\ found.cleaned = row.cleaned /\ found.cdone = row.cdone
  <2>1. found = [dest EXCEPT !.phase = "validating"] /\ "validating" \in Phases
    BY <1>1, PhasesWritten
  <2> QED BY <1>3, <2>1 DEF Build
<1>5. left \in Build /\ left.cleaned = row.cleaned /\ left.cdone = row.cdone
  BY ZenonT(60), <1>1, <1>3 DEF Build
<1>6. MayMark(b, row) /\ MayMark(b, dest) /\ MayMark(b, found) /\ MayMark(b, left)
  BY <1>1, <1>2, <1>3, <1>4, <1>5 DEF MayMark
<1>7. \/ Advance(b, found)
      \/ \E err : Returns(b, row, err) \/ Returns(b, dest, err) \/ Returns(b, left, err)
  BY <1>1, Zenon DEF WaitReplicaBuildCloneTask
<1> QED BY <1>6, <1>7, SavesMark

\* The canary is recorded as cleaned up when it is gone.
LEMMA CanaryCleanupMarks ==
  ASSUME IInv, NEW b \in Builds, StartReplicaBuildCanaryCleanup(b) \/ WaitCanaryCleanup(b) \/ CleanupCanary(b)
  PROVE  Marks(b)
<1>0. ASSUME NEW err, Returns(b, build[b], err) PROVE Marks(b)
  BY <1>0, RowsMayMark, SavesMark
<1>1. vc[b]["canary"] = vc[b].canary
  BY OneBuild, VMType DEF Typed
<1>2. ASSUME NEW p \in {"finalizing", "residue_prepared"}, vc[b]["canary"] = "gone",
             Advance(b, [build[b] EXCEPT !.cdone = TRUE, !.phase = p])
      PROVE  Marks(b)
  BY <1>1, <1>2, RowsMayMark, SavesMark, PhasesWritten, Zenon
<1>3. ASSUME Arm(b, [build[b] EXCEPT !.phase = "cleanup_submitting"], "canary_cleanup") PROVE Marks(b)
  BY <1>3, RowsMayMark, SavesMark, PhasesWritten, Zenon
<1>4. ASSUME Returns(b, [build[b] EXCEPT !.phase = "cleanup_prepared"], "wait") PROVE Marks(b)
  BY <1>4, RowsMayMark, SavesMark, PhasesWritten, Zenon
<1>5. CASE StartReplicaBuildCanaryCleanup(b)
  BY <1>0, <1>2, <1>3, <1>5, Zenon DEF StartReplicaBuildCanaryCleanup, ValidateReplicaBuildMarker
<1>6. CASE WaitCanaryCleanup(b)
  BY <1>0, <1>2, <1>4, <1>6, Zenon DEF WaitCanaryCleanup, DestroyWaited
<1>7. CASE CleanupCanary(b)
  BY <1>0, <1>2, <1>3, <1>4, <1>7, Zenon DEF CleanupCanary, DestroyWaited, ValidateReplicaBuildMarker
<1> QED BY <1>5, <1>6, <1>7

\* Without a canary on record there is nothing to prove.
LEMMA UnknownCanaryMarks ==
  ASSUME IInv, NEW b \in Builds, CleanupUnknownCanary(b) PROVE Marks(b)
<1> DEFINE p == IF build[b].phase \in Residue THEN build[b].phase ELSE "residue_prepared"
<1>1. p \in Phases
  BY DEF Residue, Phases
<1>2. \/ Advance(b, [build[b] EXCEPT !.canary = TRUE])
      \/ Advance(b, [build[b] EXCEPT !.cdone = TRUE, !.phase = p])
      \/ \E err : Returns(b, build[b], err)
  BY DEF CleanupUnknownCanary, Unresolved
<1>3. ~build[b].canary
  BY DEF CleanupUnknownCanary
<1> HIDE DEF p
<1>4. MayMark(b, [build[b] EXCEPT !.cdone = TRUE, !.phase = p])
  BY <1>1, <1>3, RowsMayMark, Zenon
<1> QED BY <1>2, <1>4, RowsMayMark, SavesMark, Zenon

\* Dropping the references to a replica marks nothing.
LEMMA ReleasedMarks ==
  ASSUME IInv, NEW c, NEW a \in Builds
  PROVE  /\ Released(build, c)[a].cleaned = build[a].cleaned
         /\ Released(build, c)[a].cdone = build[a].cdone
BY ZenonT(60) DEF Released, IInv, TypeOK, Build

\* The end of a cleanup: the retained VM is gone, or there was none.
LEMMA CompleteProven ==
  ASSUME IInv, NEW b \in Builds, CompleteTemplateReplicaBuildCleanup(b), ~build[b].dest \/ vc[b].clone = "gone"
  PROVE  CleansOnProof
<1>1. PICK row, st, ph, closed :
      /\ row = build[b]
      /\ st = (IF row.status = "retiring" THEN "retired" ELSE "failed")
      /\ ph = (IF row.status = "retiring" THEN "retired" ELSE "residue_cleaned")
      /\ closed = [row EXCEPT !.status = st, !.phase = ph, !.result = FALSE, !.cleaned = TRUE, !.code = "other"]
  OBVIOUS
<1>2. row \in Build
  BY <1>1, OneBuild DEF Typed
<1>3. closed.cleaned /\ closed.cdone = row.cdone
  BY <1>1, <1>2 DEF Build
<1>4. \/ build' = [Released(build, row.compute) EXCEPT ![b] = closed]
      \/ build' = [build EXCEPT ![b] = closed]
      \/ Returns(b, row, "refused")
  BY <1>1, Zenon DEF CompleteTemplateReplicaBuildCleanup
<1>5. CASE Returns(b, row, "refused")
  BY <1>1, <1>5, RowsMayMark, SavesMark, MarksProven
<1>6. CASE build' = [build EXCEPT ![b] = closed]
  BY <1>1, <1>3, <1>6 DEF CleansOnProof, IInv, TypeOK
<1>7. CASE build' = [Released(build, row.compute) EXCEPT ![b] = closed]
  <2>1. \A a \in Builds : /\ Released(build, row.compute)[a].cleaned = build[a].cleaned
                          /\ Released(build, row.compute)[a].cdone = build[a].cdone
    BY ReleasedMarks
  <2>2. Released(build, row.compute) = [a \in Builds |-> Released(build, row.compute)[a]]
    BY DEF Released
  <2> QED BY <1>1, <1>3, <1>7, <2>1, <2>2 DEF CleansOnProof
<1> QED BY <1>4, <1>5, <1>6, <1>7

\* The steps of cleanupTemplateReplicaBuild on the retained VM.
LEMMA CleanupCloneProven ==
  ASSUME IInv, NEW b \in Builds, CleanupUnknownClone(b) \/ CleanupClone(b) PROVE CleansOnProof
<1>0. ASSUME NEW err, Returns(b, build[b], err) PROVE CleansOnProof
  BY <1>0, RowsMayMark, SavesMark, MarksProven
<1>1. vc[b]["clone"] = vc[b].clone
  BY OneBuild, VMType DEF Typed
<1>2. ASSUME CompleteTemplateReplicaBuildCleanup(b), ~build[b].dest \/ vc[b]["clone"] = "gone" PROVE CleansOnProof
  BY <1>1, <1>2, CompleteProven
<1>3. CASE Advance(b, [build[b] EXCEPT !.dest = TRUE])
  BY <1>3, RowsMayMark, SavesMark, MarksProven, Zenon
<1>4. ASSUME Arm(b, [build[b] EXCEPT !.phase = "residue_submitting"], "residue_cleanup") PROVE CleansOnProof
  BY <1>4, RowsMayMark, SavesMark, MarksProven, PhasesWritten, Zenon
<1>5. ASSUME Returns(b, [build[b] EXCEPT !.phase = "residue_prepared"], "wait") PROVE CleansOnProof
  BY <1>5, RowsMayMark, SavesMark, MarksProven, PhasesWritten, Zenon
<1>6. CASE CleanupUnknownClone(b)
  BY <1>0, <1>2, <1>3, <1>6, Zenon DEF CleanupUnknownClone
<1>7. CASE CleanupClone(b)
  BY <1>0, <1>2, <1>4, <1>5, <1>7, Zenon DEF CleanupClone, DestroyWaited, ValidateReplicaBuildMarker
<1> QED BY <1>6, <1>7

\* A call saves the phase of its submission at most.
LEMMA CallMarks ==
  ASSUME IInv, NEW b \in Builds, Call(b) PROVE Marks(b)
<1>1. SubmittedPhase(run[b]) \in Phases
  BY DEF Call, Calls, SubmittedPhase, Phases, Forward, Residue
<1>2. PICK done : done = [build[b] EXCEPT !.phase = SubmittedPhase(run[b])]
  OBVIOUS
<1>3. MayMark(b, done) /\ MayMark(b, build[b])
  BY <1>1, <1>2, RowsMayMark, Zenon
<1>4. Advance(b, done) \/ Advance(b, build[b]) \/ \E err : Returns(b, done, err) \/ Returns(b, build[b], err)
  BY <1>2, Zenon DEF Call
<1> QED BY <1>3, <1>4, SavesMark

\* Requests of operators mark nothing.
LEMMA OperatorProven ==
  ASSUME IInv, Operator PROVE CleansOnProof
<1>1. build \in [Builds -> Build]
  BY DEF IInv, TypeOK
<1>2. CASE UNCHANGED build
  BY <1>2 DEF CleansOnProof
<1>3. ASSUME NEW c \in Computes, DeleteTemplateSourceReplica(c) PROVE CleansOnProof
  <2>1. build' = Released(build, c)
    BY <1>3 DEF DeleteTemplateSourceReplica
  <2> QED BY <2>1, ReleasedMarks DEF CleansOnProof
<1>4. ASSUME NEW b \in Builds, NEW new, build' = [build EXCEPT ![b] = new],
             new.cleaned => build[b].cleaned, new.cdone => build[b].cdone
      PROVE  CleansOnProof
  BY <1>1, <1>4 DEF CleansOnProof
<1>5. ASSUME NEW b \in Builds, NEW src \in Computes, NEW dst \in Computes, CreateTemplateReplicaBuild(b, src, dst)
      PROVE  CleansOnProof
  <2>1. PICK new : new = [NoBuild EXCEPT !.status = "pending", !.phase = "pending",
                                         !.source = src, !.compute = dst]
    OBVIOUS
  <2>2. ~new.cleaned /\ ~new.cdone
    BY <2>1 DEF NoBuild
  <2> QED BY <1>4, <1>5, <2>1, <2>2 DEF CreateTemplateReplicaBuild
<1>6. ASSUME NEW b \in Builds,
             RetryTemplateReplicaBuild(b) \/ CleanupTemplateReplicaBuild(b) \/ RetireReadyBuild(b)
      PROVE  CleansOnProof
  <2>1. PICK row, retried, asked, retiring :
        /\ row = build[b]
        /\ retried = [row EXCEPT !.status = "running", !.phase = row.resume, !.code = ""]
        /\ asked = [row EXCEPT !.status = "cleanup_required", !.phase = row.resume, !.code = ""]
        /\ retiring = [row EXCEPT !.status = "retiring", !.phase = "residue_prepared",
                                  !.cleaned = FALSE, !.code = "other"]
    OBVIOUS
  <2>2. row \in Build
    BY <1>1, <2>1
  <2>3. retried.cleaned = row.cleaned /\ retried.cdone = row.cdone
    BY <2>1, <2>2 DEF Build
  <2>4. asked.cleaned = row.cleaned /\ asked.cdone = row.cdone
    BY <2>1, <2>2 DEF Build
  <2>5. ~retiring.cleaned /\ retiring.cdone = row.cdone
    BY <2>1, <2>2 DEF Build
  <2>6. CASE RetryTemplateReplicaBuild(b)
    <3>1. build' = [build EXCEPT ![b] = retried]
      BY <1>1, <2>1, <2>6 DEF RetryTemplateReplicaBuild, Build
    <3> QED BY <1>4, <2>1, <2>3, <3>1
  <2>7. CASE CleanupTemplateReplicaBuild(b)
    <3>1. build' = [build EXCEPT ![b] = asked]
      BY <1>1, <2>1, <2>7 DEF CleanupTemplateReplicaBuild, Build
    <3> QED BY <1>4, <2>1, <2>4, <3>1
  <2>8. CASE RetireReadyBuild(b)
    <3>1. build' = [build EXCEPT ![b] = retiring]
      BY <1>1, <2>1, <2>8 DEF RetireReadyBuild, Build
    <3> QED BY <1>4, <2>1, <2>5, <3>1
  <2> QED BY <1>6, <2>6, <2>7, <2>8
<1>7. ASSUME NEW c \in Computes,
             AdminCreateTemplateSourceReplica(c) \/ PlaceVM(c) \/ ReleasePlacement(c)
      PROVE  CleansOnProof
  BY <1>2, <1>7 DEF AdminCreateTemplateSourceReplica, PlaceVM, ReleasePlacement
<1> QED BY <1>3, <1>5, <1>6, <1>7 DEF Operator

\* Every step cleans on proof.
LEMMA NextProven == IInv /\ [Next]_vars => CleansOnProof
<1> SUFFICES ASSUME IInv, [Next]_vars PROVE CleansOnProof
  OBVIOUS
<1>1. CASE UNCHANGED build
  BY <1>1 DEF CleansOnProof
<1>2. ASSUME NEW b \in Builds, Worker(b) PROVE CleansOnProof
  <2>1. CASE Claim(b) \/ JobEnds(b)
    BY <1>1, <2>1 DEF Claim, JobEnds
  <2> QED
    BY <1>2, <2>1, CallMarks, ExecutionMarks, WaitCloneMarks, CanaryCleanupMarks, UnknownCanaryMarks,
       CleanupCloneProven, MarksProven DEF Worker
<1>3. ASSUME NEW b \in Builds, LeaseLost(b) \/ LateCall(b) \/ VCenterTask(b) PROVE CleansOnProof
  BY <1>1, <1>3 DEF LeaseLost, LateCall, VCenterTask
<1>4. CASE UNCHANGED vars
  BY <1>1, <1>4 DEF vars
<1> QED BY <1>2, <1>3, <1>4, OperatorProven DEF Next

\* A build records that its VM, or its canary, is cleaned up only after the VM
\* is gone (CompleteTemplateReplicaBuildCleanup, and the canary steps of
\* executeTemplateReplicaBuild and cleanupTemplateReplicaBuild).
THEOREM BuildCleansOnProof == Spec => CleanedOnProof
<1> QED BY NextProven, BuildInvariant, PTL DEF Spec, CleanedOnProof
=============================================================================
