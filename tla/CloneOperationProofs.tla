------------------------ MODULE CloneOperationProofs ------------------------
(***************************************************************************)
(* Proofs about CloneOperation for every set of operations and tokens: one  *)
(* clone at a time, a clone that can be found, recorded destructions that   *)
(* are true, and a deleted VM that stays deleted.                           *)
(*                                                                         *)
(* The argument separates what a step makes of the job (JobMay), of the VM  *)
(* row (VMMay) and of the execution that takes it (RunMay).  A step of      *)
(* these kinds submits nothing and destroys nothing: StepKeeps.  The steps  *)
(* that prepare, arm, submit, finish, adopt or destroy a clone are shown    *)
(* one by one.                                                              *)
(***************************************************************************)
EXTENDS CloneOperation, TLAPS

USE NoneApart, MaxRetriesIsNat

VMRows == [status : Building \cup {"running", "error", "deleted"}, moref : Ops \cup {None}]
DelRows == [job : {"none", "open", "done"}, pc : {"idle", "destroy", "mark", "clear"},
            moref : Ops \cup {None}, already : BOOLEAN]
States == {"none", "pending", "failed", "exists", "gone"}

\* Every clone that the owner of the job can speak of.
Names(c) == {None, job.op.id, job.target, vm.moref, runs[c].op.id, runs[c].known,
             runs[c].moref, runs[c].target}

\* What a step of c may make of the job.
JobMay(c, j) ==
    /\ j \in JobRows
    /\ j = job \/ Owns(c)
    /\ j.status = "active" => job.status = "active" /\ j.owner = job.owner
    /\ j.op.id = None <=> j.op = NoOp
    /\ j.op.phase = "prepared" => Unused(j.op.id)
    /\ j.target # None => j.cleanup
    /\ j.target \in Made
    /\ \A o \in j.destroyed : vc[o] = "gone"
    /\ j.op.id \in {None, job.op.id}
    /\ j.target \in Names(c)
    /\ vm.status # "deleted" => \A o \in Ops : Out(o) => o \in {j.op.id, j.target, vm.moref}

\* What a step may make of the VM row, short of adopting, detaching or deleting.
VMMay(v) == v \in VMRows /\ v.moref = vm.moref /\ (v.status = "deleted" <=> vm.status = "deleted")

\* What a step of c that leaves the job as j may make of its execution.
RunMay(c, j, r) ==
    /\ r \in RunRows
    /\ r.pc # "submit"
    /\ RunHonest(r)
    /\ Owns(c) => {r.op.id, r.known, r.moref, r.target} \subseteq Names(c)
    /\ j.status = "active" /\ j.owner = c => OwnerInformed(j, r)

\* The type invariant, one conjunct per variable.
LEMMA TypeFlat ==
  TypeOK <=> /\ job \in JobRows /\ vm \in VMRows /\ vc \in [Ops -> States]
             /\ runs \in [Tokens -> RunRows] /\ del \in DelRows
  BY DEF TypeOK, VMRows, DelRows, States

\* The same in the next state.
LEMMA TypeFlatNext ==
  TypeOK' <=> /\ job' \in JobRows /\ vm' \in VMRows /\ vc' \in [Ops -> States]
              /\ runs' \in [Tokens -> RunRows] /\ del' \in DelRows
  BY DEF TypeOK, VMRows, DelRows, States

\* A step that submits and destroys nothing keeps the invariant.
LEMMA StepKeeps ==
  ASSUME IInv, NEW c \in Tokens, NEW j, NEW v, NEW r,
         JobMay(c, j), VMMay(v), RunMay(c, j, r),
         job' = j, vm' = v, runs' = [runs EXCEPT ![c] = r], vc' = vc, del' = del
  PROVE  IInv'
<1>t. /\ job \in JobRows /\ vm \in VMRows /\ vc \in [Ops -> States]
      /\ runs \in [Tokens -> RunRows] /\ del \in DelRows
  BY TypeFlat DEF IInv
<1>u. TypeOK'
  BY <1>t, TypeFlatNext DEF JobMay, VMMay, RunMay
<1>r. /\ runs'[c] = r
      /\ \A d \in Tokens \ {c} : runs'[d] = runs[d]
  BY <1>t
<1>o. \A o : Out(o)' => Out(o)
  BY <1>r DEF Out, Live, At, RunMay
<1>n. \A o : Unused(o) => Unused(o)'
  BY <1>r DEF Unused, At, RunMay
<1>m. Made' = Made
  BY DEF Made
<1>w. \A d \in Tokens : Owns(d)' => Owns(d)
  BY DEF Owns, JobMay
<1>1. RowsHonest'
  BY <1>n, <1>m DEF RowsHonest, IInv, JobMay, VMMay
<1>2. OneClone'
  <2>1. PICK o \in Ops \cup {None} :
           /\ {job.op.id, job.target, vm.moref} \subseteq {None, o}
           /\ \A d \in Tokens : Owns(d) =>
                 {runs[d].op.id, runs[d].known, runs[d].moref, runs[d].target} \subseteq {None, o}
    BY DEF IInv, OneClone
  <2>2. Owns(c) => Names(c) \subseteq {None, o}
    BY <2>1 DEF Names
  <2>3. j.op.id \in {None, o} /\ j.target \in {None, o} /\ v.moref \in {None, o}
    <3>1. CASE j = job
      BY <3>1, <2>1 DEF VMMay
    <3>2. CASE Owns(c)
      BY <3>2, <2>1, <2>2 DEF JobMay, VMMay
    <3> QED BY <3>1, <3>2 DEF JobMay
  <2>4. ASSUME NEW d \in Tokens, Owns(d)'
        PROVE  {runs'[d].op.id, runs'[d].known, runs'[d].moref, runs'[d].target} \subseteq {None, o}
    <3>1. CASE d = c
      BY <3>1, <1>r, <1>w, <2>2, <2>4 DEF RunMay
    <3>2. CASE d # c
      BY <3>2, <1>r, <1>w, <2>1, <2>4
    <3> QED BY <3>1, <3>2
  <2> QED BY <2>3, <2>4 DEF OneClone
<1>3. OneOut'
  BY <1>o DEF OneOut, IInv, JobMay
<1>4. OutTraceable'
  BY <1>o DEF OutTraceable, JobMay, VMMay
<1>5. RunsHonest'
  <2>1. ASSUME NEW d \in Tokens PROVE RunHonest(runs[d])'
    <3>1. CASE d = c
      BY <3>1, <1>r, <1>m DEF RunMay, RunHonest
    <3>2. CASE d # c
      BY <3>2, <1>r, <1>m DEF IInv, RunsHonest, RunHonest
    <3> QED BY <3>1, <3>2
  <2>2. ASSUME NEW d \in Tokens, Owns(d)' PROVE OwnerInformed(job, runs[d])'
    <3>1. CASE d = c
      <4>1. OwnerInformed(j, r)
        BY <2>2, <3>1 DEF Owns, RunMay
      <4> QED BY <4>1, <3>1, <1>r, <1>o, <1>n DEF OwnerInformed, VMMay
    <3>2. CASE d # c
      <4>1. Owns(d) /\ ~Owns(c)
        BY <2>2, <1>w, <3>2 DEF Owns
      <4>2. OwnerInformed(job, runs[d])
        BY <4>1 DEF IInv, RunsHonest
      <4>3. j = job
        BY <4>1 DEF JobMay
      <4> QED BY <4>2, <4>3, <3>2, <1>r, <1>o, <1>n DEF OwnerInformed, VMMay
    <3> QED BY <3>1, <3>2
  <2> QED BY <2>1, <2>2 DEF RunsHonest
<1>6. SubmitsOnce'
  BY <1>r DEF SubmitsOnce, IInv, RunMay, At
<1>7. RecordedIsGone'
  BY DEF RecordedIsGone, JobMay
<1> QED BY <1>u, <1>1, <1>2, <1>3, <1>4, <1>5, <1>6, <1>7 DEF IInv

Outs == {"ok", "retry", "comp", "compensated", "manual", "failed"}
Causes == {"cleanup", "noclone", "plain", "comp", "manual"}

\* c, with the job left as j, takes a step that RunMay allows.
Moves(c, j) == \E r : RunMay(c, j, r) /\ runs' = [runs EXCEPT ![c] = r]

\* Whoever steps, the job may stay as it is, and so may the VM row.
LEMMA JobStays ==
  ASSUME IInv, NEW c \in Tokens
  PROVE  JobMay(c, job) /\ VMMay(vm)
<1>1. /\ job \in JobRows /\ vm \in VMRows
  BY TypeFlat DEF IInv
<1> QED BY <1>1 DEF IInv, RowsHonest, OutTraceable, RecordedIsGone, JobMay, VMMay, Names

\* StepKeeps, for the steps that leave the VM row alone and those that write the execution only.
LEMMA JobStepKeeps ==
  ASSUME IInv, NEW c \in Tokens, NEW j, JobMay(c, j), Moves(c, j), job' = j, UNCHANGED <<vm, vc, del>>
  PROVE  IInv'
<1>1. PICK r : RunMay(c, j, r) /\ runs' = [runs EXCEPT ![c] = r]
  BY DEF Moves
<1>2. PICK v : v = vm
  OBVIOUS
<1>3. VMMay(v)
  BY <1>2, JobStays
<1> QED BY <1>1, <1>2, <1>3, StepKeeps

\* A step that moves one execution only.
LEMMA RunStepKeeps ==
  ASSUME IInv, NEW c \in Tokens, Moves(c, job), UNCHANGED <<job, vm, vc, del>>
  PROVE  IInv'
<1>1. PICK j : j = job
  OBVIOUS
<1>2. JobMay(c, j) /\ Moves(c, j)
  BY <1>1, JobStays
<1> QED BY <1>1, <1>2, JobStepKeeps

\* A step that moves one execution and writes the VM row.
LEMMA VMStepKeeps ==
  ASSUME IInv, NEW c \in Tokens, VMMay(vm'), Moves(c, job), UNCHANGED <<job, vc, del>>
  PROVE  IInv'
<1>1. PICK j : j = job
  OBVIOUS
<1>2. JobMay(c, j) /\ Moves(c, j)
  BY <1>1, JobStays
<1>3. PICK r : RunMay(c, j, r) /\ runs' = [runs EXCEPT ![c] = r]
  BY <1>2 DEF Moves
<1>4. PICK v : v = vm'
  OBVIOUS
<1> QED BY <1>1, <1>2, <1>3, <1>4, StepKeeps

\* The idle execution is a run row.
LEMMA IdleRow ==
  /\ IdleRun \in RunRows
  /\ IdleRun.pc = "idle" /\ IdleRun.op = NoOp /\ IdleRun.known = None /\ IdleRun.moref = None
  /\ IdleRun.target = None /\ NoOp \in OpRows /\ NoOp.id = None /\ NoOp.phase = "none"
  BY DEF IdleRun, RunRows, PCs, NoOp, OpRows

\* The body returns, with or without its claim.
LEMMA ReturnsMoves ==
  ASSUME NEW c \in Tokens, NEW j
  PROVE  \A out \in Outs, t \in Made :
            /\ Returns(c, out, t)
            /\ Owns(c) => t \in Names(c)
            /\ out = "retry" /\ j.status = "active" /\ j.owner = c => j.target = None
            => Moves(c, j)
<1> SUFFICES ASSUME NEW out \in Outs, NEW t \in Made, Returns(c, out, t),
                    Owns(c) => t \in Names(c),
                    out = "retry" /\ j.status = "active" /\ j.owner = c => j.target = None
             PROVE  Moves(c, j)
  OBVIOUS
<1>1. PICK r : r = IF Owns(c) THEN [IdleRun EXCEPT !.pc = "settle", !.out = out, !.target = t]
                   ELSE IdleRun
  OBVIOUS
<1>2. runs' = [runs EXCEPT ![c] = r]
  BY <1>1 DEF Returns, Set
<1>3. t \in Ops \cup {None}
  BY DEF Made
<1>4. /\ r \in RunRows /\ r.pc \in {"settle", "idle"} /\ r.op = NoOp /\ r.known = None /\ r.moref = None
      /\ r.target \in {None, t} /\ (r.pc = "settle" => r.out = out)
  <2>1. CASE Owns(c)
    BY ZenonT(60), <2>1, <1>1, <1>3, IdleRow DEF RunRows, PCs, Outs
  <2>2. CASE ~Owns(c)
    BY <2>2, <1>1, IdleRow
  <2> QED BY <2>1, <2>2
<1>5. RunMay(c, j, r)
  BY <1>4, IdleRow DEF RunMay, RunHonest, OwnerInformed, Names, Made, Early
<1> QED BY <1>2, <1>5 DEF Moves

\* failVMAddWithCleanup begins.
LEMMA FailMoves ==
  ASSUME NEW c \in Tokens, NEW j
  PROVE  \A m \in Made \ {None}, cause \in Causes :
            FailWithCleanup(c, m, cause) /\ (Owns(c) => m \in Names(c)) => Moves(c, j)
<1> SUFFICES ASSUME NEW m \in Made \ {None}, NEW cause \in Causes, FailWithCleanup(c, m, cause),
                    Owns(c) => m \in Names(c)
             PROVE  Moves(c, j)
  OBVIOUS
<1>1. PICK r : r = [IdleRun EXCEPT !.pc = "fstage", !.moref = m, !.cause = cause, !.target = m]
  OBVIOUS
<1>2. runs' = [runs EXCEPT ![c] = r]
  BY <1>1 DEF FailWithCleanup, Set
<1>3. m \in Ops \cup {None}
  BY DEF Made
<1>4. /\ r \in RunRows /\ r.pc = "fstage" /\ r.op = NoOp /\ r.known = None /\ r.moref = m /\ r.target = m
  BY <1>1, <1>3, IdleRow DEF RunRows, PCs, Causes
<1>5. RunMay(c, j, r)
  BY <1>4, IdleRow DEF RunMay, RunHonest, OwnerInformed, Names, Made, Early
<1> QED BY <1>2, <1>5 DEF Moves

\* An execution that ends without a clone in hand.
LEMMA WithoutMoves ==
  ASSUME NEW c \in Tokens, NEW j, WithoutClone(c)
  PROVE  Moves(c, j)
<1>1. PICK r : r = [IdleRun EXCEPT !.pc = "finalize", !.cause = "noclone"]
  OBVIOUS
<1>2. runs' = [runs EXCEPT ![c] = r]
  BY <1>1 DEF WithoutClone, Set
<1>4. /\ r \in RunRows /\ r.pc = "finalize" /\ r.op = NoOp /\ r.known = None /\ r.moref = None /\ r.target = None
  BY <1>1, IdleRow DEF RunRows, PCs
<1>5. RunMay(c, j, r)
  BY <1>4, IdleRow DEF RunMay, RunHonest, OwnerInformed, Names, Made, Early
<1> QED BY <1>2, <1>5 DEF Moves

\* What an execution holds was made.
LEMMA Known ==
  ASSUME IInv, NEW c \in Tokens
  PROVE  /\ {runs[c].known, runs[c].moref, runs[c].target, None, vm.moref, job.target} \subseteq Made
         /\ {runs[c].known, runs[c].moref, runs[c].target, None, runs[c].op.id, vm.moref, job.target} \subseteq Names(c)
  BY DEF IInv, RunsHonest, RunHonest, RowsHonest, Names, Made

\* The ways out before and after the clone.
LEMMA BeforeMoves ==
  ASSUME IInv, NEW c \in Tokens, NEW j, FailsBeforeClone(c),
         j.status = "active" /\ j.owner = c => j.target = None
  PROVE  Moves(c, j)
<1>1. CASE Returns(c, "retry", None) \/ Returns(c, "comp", None)
  BY <1>1, ReturnsMoves, Known DEF Outs
<1>2. CASE runs[c].known # None /\ FailWithCleanup(c, runs[c].known, "plain")
  BY <1>2, FailMoves, Known DEF Causes
<1>3. CASE WithoutClone(c)
  BY <1>3, WithoutMoves
<1> QED BY <1>1, <1>2, <1>3 DEF FailsBeforeClone

\* An execution that fails with a clone in hand.
LEMMA AfterMoves ==
  ASSUME IInv, NEW c \in Tokens, NEW j, FailsAfterClone(c), runs[c].moref # None,
         j.status = "active" /\ j.owner = c => j.target = None
  PROVE  Moves(c, j)
<1>1. CASE Returns(c, "retry", None)
  BY <1>1, ReturnsMoves, Known DEF Outs
<1>2. CASE FailWithCleanup(c, runs[c].moref, "plain")
  BY <1>2, FailMoves, Known DEF Causes
<1> QED BY <1>1, <1>2 DEF FailsAfterClone

\* What is known of c when it takes a step.
LEMMA RunFacts ==
  ASSUME IInv, NEW c \in Tokens
  PROVE  /\ runs[c] \in RunRows /\ runs \in [Tokens -> RunRows] /\ job \in JobRows /\ vm \in VMRows
         /\ vc \in [Ops -> States] /\ RunHonest(runs[c])
         /\ Owns(c) => OwnerInformed(job, runs[c])
  BY TypeFlat DEF IInv, RunsHonest

\* The VM row is read.
LEMMA ReadVMKeeps ==
  ASSUME IInv, NEW c \in Tokens, ReadVM(c)
  PROVE  IInv'
<1>0. runs[c].pc = "read"
  BY DEF ReadVM, At
<1>1. CASE Set(c, [runs[c] EXCEPT !.pc = "guard", !.known = vm.moref, !.running = vm.status = "running"])
  <2>0. PICK b \in BOOLEAN : b = (vm.status = "running")
    OBVIOUS
  <2>1. PICK r : r = [runs[c] EXCEPT !.pc = "guard", !.known = vm.moref, !.running = b]
    OBVIOUS
  <2>2. runs' = [runs EXCEPT ![c] = r]
    BY <1>1, <2>0, <2>1 DEF Set
  <2>3. /\ r \in RunRows /\ r.pc = "guard" /\ r.known = vm.moref /\ r.op = runs[c].op /\ r.moref = runs[c].moref
        /\ r.target = runs[c].target /\ r.hadOp = runs[c].hadOp
    <3>1. runs[c] \in RunRows /\ vm.moref \in Ops \cup {None}
      BY RunFacts DEF VMRows
    <3> QED BY <2>1, <3>1 DEF RunRows, PCs
  <2>4. RunMay(c, job, r)
    BY <1>0, <2>3, RunFacts, Known DEF RunMay, RunHonest, OwnerInformed, Owns, Early
  <2> QED BY <2>2, <2>4, RunStepKeeps DEF Moves, ReadVM
<1>2. CASE FailsBeforeClone(c)
  <2>1. Owns(c) => job.target = None
    BY <1>0, RunFacts DEF OwnerInformed, Early
  <2>2. Moves(c, job)
    <3>1. PICK j : j = job
      OBVIOUS
    <3> QED BY <1>2, <2>1, <3>1, BeforeMoves DEF Owns
  <2> QED BY <2>2, RunStepKeeps DEF ReadVM
<1> QED BY <1>1, <1>2 DEF ReadVM

\* BeforeMoves, ReturnsMoves and the others for a step that leaves the job alone.
LEMMA BeforeMovesHere ==
  ASSUME IInv, NEW c \in Tokens, FailsBeforeClone(c), Owns(c) => job.target = None
  PROVE  Moves(c, job)
<1>1. PICK j : j = job
  OBVIOUS
<1> QED BY <1>1, BeforeMoves DEF Owns

\* The same for a step that leaves the job row alone.
LEMMA AfterMovesHere ==
  ASSUME IInv, NEW c \in Tokens, FailsAfterClone(c), runs[c].moref # None, Owns(c) => job.target = None
  PROVE  Moves(c, job)
<1>1. PICK j : j = job
  OBVIOUS
<1> QED BY <1>1, AfterMoves DEF Owns

\* An execution that returns, the job row left alone.
LEMMA ReturnsMovesHere ==
  ASSUME IInv, NEW c \in Tokens
  PROVE  \A out \in Outs, t \in Made :
            /\ Returns(c, out, t)
            /\ Owns(c) => t \in Names(c)
            /\ out = "retry" /\ Owns(c) => job.target = None
            => Moves(c, job)
<1>1. PICK j : j = job
  OBVIOUS
<1> QED BY <1>1, ReturnsMoves DEF Owns

\* An execution that fails, the job row left alone.
LEMMA FailMovesHere ==
  ASSUME IInv, NEW c \in Tokens
  PROVE  \A m \in Made \ {None}, cause \in Causes :
            FailWithCleanup(c, m, cause) /\ (Owns(c) => m \in Names(c)) => Moves(c, job)
<1>1. PICK j : j = job
  OBVIOUS
<1> QED BY <1>1, FailMoves

\* An execution that ends without a clone, the job row left alone.
LEMMA WithoutMovesHere ==
  ASSUME IInv, NEW c \in Tokens, WithoutClone(c)
  PROVE  Moves(c, job)
<1>1. PICK j : j = job
  OBVIOUS
<1> QED BY <1>1, WithoutMoves

\* An execution whose VM may no longer be provisioned.
LEMMA NotProvisionableMoves ==
  ASSUME IInv, NEW c \in Tokens, NotProvisionable(c), Owns(c) => job.target = None
  PROVE  Moves(c, job)
<1>1. CASE vm.moref # None /\ FailWithCleanup(c, vm.moref, "plain")
  BY <1>1, FailMovesHere, Known DEF Causes
<1>2. CASE WithoutClone(c)
  BY <1>2, WithoutMovesHere
<1>3. CASE \E out \in Outs : Returns(c, out, None)
  BY <1>3, ReturnsMovesHere, Known
<1> QED BY <1>1, <1>2, <1>3 DEF NotProvisionable, Outs

\* The VM row goes to provisioning, or the guard refuses.
LEMMA GuardKeeps ==
  ASSUME IInv, NEW c \in Tokens, GuardProvisioning(c) \/ GuardFails(c)
  PROVE  IInv'
<1>0. runs[c].pc = "guard" /\ (Owns(c) => job.target = None)
  BY RunFacts DEF GuardProvisioning, GuardFails, At, OwnerInformed, Early
<1>1. CASE GuardProvisioning(c)
  <2>1. VMMay(vm')
    BY <1>1, RunFacts DEF GuardProvisioning, StatusFrom, VMMay, VMRows, Building
  <2>2. Moves(c, job)
    <3>1. CASE vm.status \in Building /\ Goto(c, "plan")
      <4>1. PICK r : r = [runs[c] EXCEPT !.pc = "plan"]
        OBVIOUS
      <4>2. runs' = [runs EXCEPT ![c] = r]
        BY <3>1, <4>1 DEF Goto, Set
      <4>3. /\ r \in RunRows /\ r.pc = "plan" /\ r.known = runs[c].known /\ r.op = runs[c].op
            /\ r.moref = runs[c].moref /\ r.target = runs[c].target /\ r.hadOp = runs[c].hadOp
        BY <4>1, RunFacts DEF RunRows, PCs
      <4>4. Owns(c) /\ ~r.hadOp /\ r.known = None => \A o \in Ops : ~Out(o)
        <5>1. Owns(c) /\ ~r.hadOp /\ r.known = None => job.op.id = None /\ job.target = None /\ vm.moref = None
          BY <1>0, <4>3, RunFacts, IdleRow DEF OwnerInformed, Early
        <5>2. vm.status # "deleted"
          BY <3>1 DEF Building
        <5> QED BY <5>1, <5>2 DEF IInv, OutTraceable
      <4>5. RunMay(c, job, r)
        BY <1>0, <4>3, <4>4, RunFacts, Known DEF RunMay, RunHonest, OwnerInformed, Owns, Early
      <4> QED BY <4>2, <4>5 DEF Moves
    <3>2. CASE NotProvisionable(c)
      BY <3>2, <1>0, NotProvisionableMoves
    <3> QED BY <1>1, <3>1, <3>2 DEF GuardProvisioning
  <2> QED BY <1>1, <2>1, <2>2, VMStepKeeps DEF GuardProvisioning
<1>2. CASE GuardFails(c)
  <2>1. Moves(c, job)
    <3>1. CASE FailsBeforeClone(c)
      BY <3>1, <1>0, BeforeMovesHere
    <3>2. CASE \E out \in Outs : Returns(c, out, None)
      BY <3>2, <1>0, ReturnsMovesHere, Known
    <3> QED BY <1>2, <3>1, <3>2 DEF GuardFails, Outs
  <2> QED BY <1>2, <2>1, RunStepKeeps DEF GuardFails
<1> QED BY <1>1, <1>2

\* Placement is planned.
LEMMA PlanKeeps ==
  ASSUME IInv, NEW c \in Tokens, Plan(c)
  PROVE  IInv'
<1>0. runs[c].pc = "plan" /\ (Owns(c) => job.target = None)
  BY RunFacts DEF Plan, At, OwnerInformed, Early
<1>1. Moves(c, job)
  <2>1. CASE /\ runs[c].known # None /\ ~runs[c].hadOp
             /\ Set(c, [runs[c] EXCEPT !.pc = "power", !.moref = runs[c].known])
    <3>1. PICK r : r = [runs[c] EXCEPT !.pc = "power", !.moref = runs[c].known]
      OBVIOUS
    <3>2. runs' = [runs EXCEPT ![c] = r]
      BY <2>1, <3>1 DEF Set
    <3>a. runs[c].known \in Ops \cup {None}
      BY Known DEF Made
    <3>3. /\ r \in RunRows /\ r.pc = "power" /\ r.known = runs[c].known /\ r.op = runs[c].op
          /\ r.moref = runs[c].known /\ r.target = runs[c].target
      <4>1. runs[c] \in RunRows
        BY RunFacts
      <4> QED BY <3>1, <3>a, <4>1 DEF RunRows, PCs
    <3>4. RunMay(c, job, r)
      BY <1>0, <2>1, <3>3, RunFacts, Known DEF RunMay, RunHonest, OwnerInformed, Owns, Early
    <3> QED BY <3>2, <3>4 DEF Moves
  <2>2. CASE ~(runs[c].known # None /\ ~runs[c].hadOp) /\ Goto(c, "prepare")
    <3>1. PICK r : r = [runs[c] EXCEPT !.pc = "prepare"]
      OBVIOUS
    <3>2. runs' = [runs EXCEPT ![c] = r]
      BY <2>2, <3>1 DEF Set, Goto
    <3>3. /\ r \in RunRows /\ r.pc = "prepare" /\ r.known = runs[c].known /\ r.op = runs[c].op
          /\ r.moref = runs[c].moref /\ r.target = runs[c].target /\ r.hadOp = runs[c].hadOp
      BY <3>1, RunFacts DEF RunRows, PCs
    <3>4. RunMay(c, job, r)
      BY <1>0, <2>2, <3>3, RunFacts, Known DEF RunMay, RunHonest, OwnerInformed, Owns, Early
    <3> QED BY <3>2, <3>4 DEF Moves
  <2>3. CASE FailsBeforeClone(c)
    BY <2>3, <1>0, BeforeMovesHere
  <2>4. CASE Returns(c, "manual", None)
    BY <2>4, ReturnsMovesHere, Known DEF Outs
  <2>5. CASE runs[c].known # None /\ FailWithCleanup(c, runs[c].known, "plain")
    BY <2>5, FailMovesHere, Known DEF Causes
  <2>6. CASE WithoutClone(c)
    BY <2>6, WithoutMovesHere
  <2> QED BY <2>1, <2>2, <2>3, <2>4, <2>5, <2>6 DEF Plan
<1> QED BY <1>1, RunStepKeeps DEF Plan

\* An operation is prepared: nothing was out, and nothing else has a name.
LEMMA FreshKeeps ==
  ASSUME IInv, NEW c \in Tokens, Owns(c), runs[c].pc = "prepare", job.op = NoOp,
         NEW o \in FreshOps, NEW j, NEW r,
         j = [job EXCEPT !.op = Prepared(o)], job' = j,
         r \in RunRows, r.pc # "submit", RunHonest(r), OwnerInformed(j, r),
         {r.op.id, r.known, r.moref, r.target} \subseteq {None, o} \cup Names(c),
         runs' = [runs EXCEPT ![c] = r], UNCHANGED <<vm, vc, del>>
  PROVE  IInv'
<1>t. /\ job \in JobRows /\ vm \in VMRows /\ vc \in [Ops -> States]
      /\ runs \in [Tokens -> RunRows] /\ del \in DelRows
  BY TypeFlat DEF IInv
<1>o. o \in Ops /\ Unused(o)
  BY DEF FreshOps, Unused
<1>j. /\ j \in JobRows /\ j.op = Prepared(o) /\ j.op.id = o /\ j.op.phase = "prepared" /\ j.target = job.target
      /\ j.status = job.status /\ j.owner = job.owner /\ j.cleanup = job.cleanup /\ j.destroyed = job.destroyed
      /\ j.op # NoOp
  BY <1>t, <1>o DEF JobRows, OpRows, Prepared, NoOp
<1>u. TypeOK'
  BY <1>t, <1>j, TypeFlatNext
<1>r. /\ runs'[c] = r
      /\ \A d \in Tokens \ {c} : runs'[d] = runs[d]
  BY <1>t
<1>p. Out(o)' => Out(o)
  BY <1>r DEF Out, Live, At
<1>q. /\ \A p : Out(p)' => Out(p)
      /\ \A p : Unused(p) => Unused(p)'
  BY <1>r DEF Out, Unused, Live, At
<1>m. Made' = Made
  BY DEF Made
<1>w. \A d \in Tokens : Owns(d)' => d = c
  BY <1>j DEF Owns
<1>e. job.target = None /\ vm.moref = None /\ Names(c) = {None} /\ \A p \in Ops : ~Out(p)
  <2>1. OwnerInformed(job, runs[c]) /\ RunHonest(runs[c])
    BY RunFacts
  <2>2. job.target = None /\ ~runs[c].hadOp /\ runs[c].known = None /\ vm.moref = None /\ job.op.id = None
    BY <2>1, IdleRow DEF OwnerInformed, Early
  <2>3. runs[c].op.id = None /\ runs[c].moref = None /\ runs[c].target = None
    BY <2>1, IdleRow DEF RunHonest, Early
  <2>4. \A p \in Ops : ~Out(p)
    BY <2>1, <2>2 DEF OwnerInformed
  <2> QED BY <2>2, <2>3, <2>4 DEF Names
<1>1. RowsHonest'
  <2>1. o # None
    BY <1>o
  <2> QED BY <1>j, <1>q, <1>o, <1>m, <2>1 DEF RowsHonest, IInv
<1>2. OneClone'
  <2>1. ASSUME NEW d \in Tokens, Owns(d)'
        PROVE  {runs'[d].op.id, runs'[d].known, runs'[d].moref, runs'[d].target} \subseteq {None, o}
    BY <2>1, <1>w, <1>r, <1>e
  <2> QED BY <2>1, <1>j, <1>e, <1>o DEF OneClone
<1>3. OneOut' /\ OutTraceable'
  BY <1>q, <1>e DEF OneOut, OutTraceable
<1>5. RunsHonest'
  <2>1. ASSUME NEW d \in Tokens PROVE RunHonest(runs[d])'
    <3>1. CASE d = c
      BY <3>1, <1>r, <1>m DEF RunHonest
    <3>2. CASE d # c
      BY <3>2, <1>r, <1>m DEF IInv, RunsHonest, RunHonest
    <3> QED BY <3>1, <3>2
  <2>2. ASSUME NEW d \in Tokens, Owns(d)' PROVE OwnerInformed(job, runs[d])'
    <3>1. d = c
      BY <2>2, <1>w
    <3> QED BY <3>1, <1>r, <1>q DEF OwnerInformed
  <2> QED BY <2>1, <2>2 DEF RunsHonest
<1>6. SubmitsOnce'
  BY <1>r DEF SubmitsOnce, IInv, At
<1>7. RecordedIsGone'
  BY <1>j DEF RecordedIsGone, IInv
<1> QED BY <1>u, <1>1, <1>2, <1>3, <1>5, <1>6, <1>7 DEF IInv

\* An operation is prepared only when nothing is out.
LEMMA PrepareKeeps ==
  ASSUME IInv, NEW c \in Tokens, Prepare(c)
  PROVE  IInv'
<1>0. runs[c].pc = "prepare" /\ (Owns(c) => job.target = None)
  BY RunFacts DEF Prepare, At, OwnerInformed, Early
<1>1. CASE FailsBeforeClone(c) /\ UNCHANGED job
  BY <1>0, <1>1, BeforeMovesHere, RunStepKeeps DEF Prepare
<1>2. ASSUME Owns(c), NEW op \in Operation, job' = [job EXCEPT !.op = op],
             \/ Set(c, [runs[c] EXCEPT !.pc = IF op.phase = "prepared" THEN "start" ELSE "wait", !.op = op])
             \/ FailsBeforeClone(c)
      PROVE  IInv'
  <2>1. CASE job.op # NoOp
    <3>1. op = job.op
      BY <2>1, <1>2 DEF Operation
    <3>2. job' = job
      BY <1>2, <3>1, RunFacts DEF JobRows
    <3>3. CASE FailsBeforeClone(c)
      BY <1>0, <3>2, <3>3, BeforeMovesHere, RunStepKeeps DEF Prepare
    <3>4. CASE Set(c, [runs[c] EXCEPT !.pc = IF op.phase = "prepared" THEN "start" ELSE "wait", !.op = op])
      <4>1. PICK pc : pc = IF op.phase = "prepared" THEN "start" ELSE "wait"
        OBVIOUS
      <4>2. PICK r : r = [runs[c] EXCEPT !.pc = pc, !.op = op]
        OBVIOUS
      <4>3. runs' = [runs EXCEPT ![c] = r]
        BY <3>4, <4>1, <4>2 DEF Set
      <4>4. op \in OpRows /\ pc \in {"start", "wait"}
        BY <3>1, <4>1, RunFacts DEF JobRows
      <4>5. /\ r \in RunRows /\ r.pc = pc /\ r.known = runs[c].known /\ r.op = op
            /\ r.moref = runs[c].moref /\ r.target = runs[c].target
        <5>1. runs[c] \in RunRows
          BY RunFacts
        <5> QED BY <4>2, <4>4, <5>1 DEF RunRows, PCs
      <4>6. op.id # None
        BY <2>1, <3>1 DEF IInv, RowsHonest
      <4>7. RunMay(c, job, r)
        <5>1. RunHonest(r)
          BY <1>0, <4>4, <4>5, <4>6, RunFacts, Known DEF RunHonest, Early
        <5>2. Owns(c) => OwnerInformed(job, r)
          BY <1>0, <3>1, <4>1, <4>5 DEF OwnerInformed, Early
        <5>3. Owns(c) => {r.op.id, r.known, r.moref, r.target} \subseteq Names(c)
          BY <3>1, <4>5, Known DEF Names
        <5>4. r.pc # "submit"
          BY <4>4, <4>5
        <5> QED BY <4>5, <5>1, <5>2, <5>3, <5>4 DEF RunMay, Owns
      <4> QED BY <3>2, <4>3, <4>7, RunStepKeeps DEF Moves, Prepare
    <3> QED BY <1>2, <3>3, <3>4
  <2>2. CASE job.op = NoOp
    <3>1. PICK o \in FreshOps : op = Prepared(o)
      BY <2>2, <1>2 DEF Operation
    <3>2. PICK j : j = [job EXCEPT !.op = Prepared(o)]
      OBVIOUS
    <3>3. j.target = job.target /\ j.op = Prepared(o) /\ j.op.id = o /\ j.op.phase = "prepared" /\ j.status = job.status /\ j.owner = job.owner
      BY <3>2, RunFacts DEF JobRows, Prepared
    <3>4. CASE FailsBeforeClone(c)
      <4>1. Moves(c, j)
        BY <1>0, <1>2, <3>3, <3>4, BeforeMoves DEF Owns
      <4>2. PICK r : RunMay(c, j, r) /\ runs' = [runs EXCEPT ![c] = r]
        BY <4>1 DEF Moves
      <4>3. OwnerInformed(j, r)
        BY <1>2, <3>3, <4>2 DEF RunMay, Owns
      <4>4. /\ r \in RunRows /\ r.pc # "submit" /\ RunHonest(r)
            /\ {r.op.id, r.known, r.moref, r.target} \subseteq {None, o} \cup Names(c)
        BY <1>2, <4>2 DEF RunMay
      <4>5. UNCHANGED <<vm, vc, del>> /\ job' = j
        BY <1>2, <3>1, <3>2 DEF Prepare
      <4> QED BY <1>0, <1>2, <2>2, <3>1, <3>2, <4>2, <4>3, <4>4, <4>5, FreshKeeps
    <3>5. CASE Set(c, [runs[c] EXCEPT !.pc = IF op.phase = "prepared" THEN "start" ELSE "wait", !.op = op])
      <4>1. PICK r : r = [runs[c] EXCEPT !.pc = "start", !.op = Prepared(o)]
        OBVIOUS
      <4>2. op.phase = "prepared"
        BY <3>1 DEF Prepared
      <4>3. runs' = [runs EXCEPT ![c] = r]
        BY <3>1, <3>5, <4>1, <4>2 DEF Set
      <4>4. Prepared(o) \in OpRows /\ Prepared(o).id = o /\ o \in Ops
        BY DEF Prepared, OpRows, FreshOps
      <4>5. /\ r \in RunRows /\ r.pc = "start" /\ r.known = runs[c].known /\ r.op = Prepared(o)
            /\ r.moref = runs[c].moref /\ r.target = runs[c].target
        <5>1. runs[c] \in RunRows
          BY RunFacts
        <5> QED BY <4>1, <4>4, <5>1 DEF RunRows, PCs
      <4>6. RunHonest(r)
        BY <4>4, <4>5, Known DEF RunHonest, Early
      <4>7. OwnerInformed(j, r)
        BY <1>0, <1>2, <3>3, <4>5 DEF OwnerInformed, Early, Prepared
      <4>8. {r.op.id, r.known, r.moref, r.target} \subseteq {None, o} \cup Names(c)
        BY <4>4, <4>5, Known
      <4>9. r.pc # "submit"
        BY <4>5
      <4> QED BY <1>0, <1>2, <2>2, <3>1, <3>2, <4>3, <4>5, <4>6, <4>7, <4>8, <4>9,
          FreshKeeps DEF Prepare
    <3> QED BY <1>2, <3>4, <3>5
  <2> QED BY <2>1, <2>2
<1> QED BY <1>1, <1>2 DEF Prepare

\* The clone is armed: it is the only one out.
LEMMA ArmKeeps ==
  ASSUME IInv, NEW c \in Tokens, At(c, "start"), CanArm(c), job' = Armed(job), Goto(c, "submit"),
         UNCHANGED <<vm, vc, del>>
  PROVE  IInv'
<1>t. /\ job \in JobRows /\ vm \in VMRows /\ vc \in [Ops -> States]
      /\ runs \in [Tokens -> RunRows] /\ del \in DelRows
  BY TypeFlat DEF IInv
<1>s. OwnerInformed(job, runs[c]) /\ RunHonest(runs[c]) /\ Owns(c) /\ runs[c].pc = "start"
  BY RunFacts DEF CanArm, At
<1>p. PICK o : o = job.op.id
  OBVIOUS
<1>o. /\ o \in Ops /\ Unused(o) /\ runs[c].op.id = o /\ job.op.phase = "prepared" /\ job.target = None
  <2>1. job.op \in OpRows /\ job.op.id # None
    BY <1>t, <1>s DEF JobRows, CanArm, RunHonest
  <2> QED BY <1>p, <1>s, <2>1 DEF CanArm, IInv, RowsHonest, OwnerInformed, OpRows
<1>j. PICK j : j = Armed(job)
  OBVIOUS
<1>k. /\ j \in JobRows /\ j.op.id = o /\ j.op.phase = "submitting" /\ j.target = None
      /\ j.status = job.status /\ j.owner = job.owner /\ j.destroyed = job.destroyed /\ j.cleanup
  <2>1. job.op \in OpRows
    BY <1>t DEF JobRows
  <2>2. [job.op EXCEPT !.phase = "submitting"] \in OpRows /\ [job.op EXCEPT !.phase = "submitting"].id = o
        /\ [job.op EXCEPT !.phase = "submitting"].phase = "submitting"
    BY <2>1, <1>p DEF OpRows
  <2> QED BY <1>t, <1>j, <1>o, <2>2 DEF JobRows, Armed
<1>r. PICK r : r = [runs[c] EXCEPT !.pc = "submit"]
  OBVIOUS
<1>q. /\ r \in RunRows /\ r.pc = "submit" /\ r.op = runs[c].op /\ r.known = runs[c].known
      /\ r.moref = runs[c].moref /\ r.target = runs[c].target
  <2>1. runs[c] \in RunRows
    BY <1>t
  <2> QED BY <1>r, <2>1 DEF RunRows, PCs
<1>v. /\ runs' = [runs EXCEPT ![c] = r] /\ runs'[c] = r
      /\ \A d \in Tokens \ {c} : runs'[d] = runs[d]
  BY <1>t, <1>r DEF Goto, Set
<1>u. TypeOK'
  BY <1>t, <1>j, <1>k, <1>q, <1>v, TypeFlatNext
<1>n. \A p \in Ops : ~Out(p)
  <2>1. ~Out(o)
    BY <1>o DEF Out, Live, Unused
  <2>2. ASSUME NEW p \in Ops, Out(p) PROVE p = o
    BY <2>2, <1>o, <1>p DEF IInv, OneOut
  <2> QED BY <2>1, <2>2
<1>w. \A p \in Ops : Out(p)' => p = o
  BY <1>n, <1>v, <1>q, <1>o DEF Out, Live, At
<1>m. Made' = Made
  BY DEF Made
<1>x. \A d \in Tokens : Owns(d)' => d = c
  BY <1>j, <1>k, <1>s DEF Owns
<1>1. RowsHonest'
  <2>1. j.op # NoOp
    BY <1>k, IdleRow
  <2> QED BY <1>j, <1>k, <1>m, <1>o, <2>1 DEF RowsHonest, IInv
<1>2. OneClone'
  <2>1. PICK q \in Ops \cup {None} :
           /\ {job.op.id, job.target, vm.moref} \subseteq {None, q}
           /\ \A d \in Tokens : Owns(d) =>
                 {runs[d].op.id, runs[d].known, runs[d].moref, runs[d].target} \subseteq {None, q}
    BY DEF IInv, OneClone
  <2>2. ASSUME NEW d \in Tokens, Owns(d)'
        PROVE  {runs'[d].op.id, runs'[d].known, runs'[d].moref, runs'[d].target} \subseteq {None, q}
    BY <2>1, <2>2, <1>x, <1>v, <1>q, <1>s
  <2> QED BY <2>1, <2>2, <1>j, <1>k, <1>p DEF OneClone
<1>3. OneOut' /\ OutTraceable'
  BY <1>w, <1>j, <1>k DEF OneOut, OutTraceable
<1>5. RunsHonest'
  <2>1. ASSUME NEW d \in Tokens PROVE RunHonest(runs[d])'
    <3>1. CASE d = c
      BY <3>1, <1>v, <1>q, <1>m, <1>o, <1>s DEF RunHonest, Unused, Early
    <3>2. CASE d # c
      BY <3>2, <1>v, <1>m DEF IInv, RunsHonest, RunHonest
    <3> QED BY <3>1, <3>2
  <2>2. ASSUME NEW d \in Tokens, Owns(d)' PROVE OwnerInformed(job, runs[d])'
    <3>1. d = c
      BY <2>2, <1>x
    <3> QED BY <3>1, <1>v, <1>q, <1>j, <1>k DEF OwnerInformed, Early
  <2> QED BY <2>1, <2>2 DEF RunsHonest
<1>6. SubmitsOnce'
  BY <1>v, <1>q, <1>o DEF SubmitsOnce, IInv, At, Unused
<1>7. RecordedIsGone'
  BY <1>j, <1>k DEF RecordedIsGone, IInv
<1> QED BY <1>u, <1>1, <1>2, <1>3, <1>5, <1>6, <1>7 DEF IInv

\* A step that changes what vCenter has, and puts nothing out that was not.
LEMMA VCKeeps ==
  ASSUME IInv, TypeOK', UNCHANGED <<job, vm>>,
         Made \subseteq Made', \A p \in Ops : vc[p] = "gone" => vc'[p] = "gone",
         \A p \in Ops : Out(p)' => Out(p), \A p \in Ops : Unused(p) => Unused(p)',
         \A d \in Tokens : RunHonest(runs[d])',
         \A d \in Tokens : Owns(d) =>
            /\ OwnerInformed(job, runs'[d])
            /\ {runs'[d].op.id, runs'[d].known, runs'[d].moref, runs'[d].target} \subseteq Names(d),
         del'.moref \in Made, del'.pc = "destroy" => del'.moref # None,
         del'.pc = "clear" => vm.status = "deleted",
         SubmitsOnce'
  PROVE  IInv'
<1>t. /\ job \in JobRows /\ vm \in VMRows /\ vc \in [Ops -> States]
      /\ runs \in [Tokens -> RunRows] /\ del \in DelRows /\ runs' \in [Tokens -> RunRows]
  BY TypeFlat, TypeFlatNext DEF IInv
<1>w. \A d \in Tokens : Owns(d)' <=> Owns(d)
  BY DEF Owns
<1>i. job.op.id \in Ops \cup {None} /\ \A d \in Tokens : runs'[d].op.id \in Ops \cup {None} /\ runs'[d].moref \in Ops \cup {None}
  BY <1>t DEF JobRows, RunRows, OpRows
<1>1. RowsHonest'
  <2>1. job.op.phase = "prepared" => Unused(job.op.id)'
    <3>1. job.op.phase = "prepared" => job.op.id # None
      BY IdleRow DEF IInv, RowsHonest
    <3> QED BY <3>1, <1>i DEF IInv, RowsHonest
  <2> QED BY <2>1 DEF RowsHonest, IInv
<1>2. OneClone'
  <2>1. PICK q \in Ops \cup {None} :
           /\ {job.op.id, job.target, vm.moref} \subseteq {None, q}
           /\ \A d \in Tokens : Owns(d) =>
                 {runs[d].op.id, runs[d].known, runs[d].moref, runs[d].target} \subseteq {None, q}
    BY DEF IInv, OneClone
  <2>2. ASSUME NEW d \in Tokens, Owns(d)'
        PROVE  {runs'[d].op.id, runs'[d].known, runs'[d].moref, runs'[d].target} \subseteq {None, q}
    <3>1. Names(d) \subseteq {None, q}
      BY <2>1, <2>2, <1>w DEF Names
    <3> QED BY <3>1, <2>2, <1>w
  <2> QED BY <2>1, <2>2 DEF OneClone
<1>3. OneOut' /\ OutTraceable'
  BY DEF IInv, OneOut, OutTraceable
<1>5. RunsHonest'
  <2>2. ASSUME NEW d \in Tokens, Owns(d)' PROVE OwnerInformed(job, runs[d])'
    <3>1. OwnerInformed(job, runs'[d])
      BY <2>2, <1>w
    <3>2. runs'[d].pc = "abandon" /\ job.op.id = runs'[d].op.id => Unused(runs[d].op.id)'
      <4>1. PICK q : q = runs'[d].op.id
        OBVIOUS
      <4>2. runs'[d].pc = "abandon" => q \in Ops
        BY <1>i, <4>1 DEF RunHonest
      <4>3. runs'[d].pc = "abandon" /\ job.op.id = q => Unused(q)'
        BY <4>1, <4>2, <3>1 DEF OwnerInformed
      <4> QED BY <4>1, <4>3 DEF Unused
    <3>3. runs'[d].pc = "disarm" /\ Out(runs[d].moref)' => Out(runs'[d].moref)
      <4>1. PICK q : q = runs'[d].moref
        OBVIOUS
      <4>2. runs'[d].pc = "disarm" => q \in Ops
        BY <1>i, <4>1 DEF RunHonest
      <4>3. Out(runs[d].moref)' => Out(q)'
        BY <4>1 DEF Out, Live
      <4>4. Out(q) => Out(runs'[d].moref)
        BY <4>1
      <4> QED BY <4>1, <4>2, <4>3, <4>4
    <3> QED BY <3>1, <3>2, <3>3 DEF OwnerInformed
  <2> QED BY <2>2 DEF RunsHonest
<1>7. RecordedIsGone'
  <2>1. job.destroyed \subseteq Ops
    BY <1>t DEF JobRows
  <2> QED BY <2>1 DEF RecordedIsGone, IInv
<1> QED BY <1>1, <1>2, <1>3, <1>5, <1>7 DEF IInv

\* The operation is armed, once.
LEMMA StartKeeps ==
  ASSUME IInv, NEW c \in Tokens, StartClone(c)
  PROVE  IInv'
<1>0. runs[c].pc = "start" /\ (Owns(c) => OwnerInformed(job, runs[c])) /\ RunHonest(runs[c])
  BY RunFacts DEF StartClone, At
<1>1. CASE CanArm(c) /\ job' = Armed(job) /\ Goto(c, "submit")
  BY <1>1, ArmKeeps DEF StartClone
<1>2. CASE CanArm(c) /\ job' = Armed(job) /\ Goto(c, "abandon")
  <2>1. PICK j : j = Armed(job)
    OBVIOUS
  <2>2. job \in JobRows /\ job.op \in OpRows
    BY RunFacts DEF JobRows
  <2>3. [job.op EXCEPT !.phase = "submitting"] \in OpRows /\ [job.op EXCEPT !.phase = "submitting"].id = job.op.id
        /\ [job.op EXCEPT !.phase = "submitting"].phase = "submitting"
    BY <2>2 DEF OpRows
  <2>4. /\ j \in JobRows /\ j.op.id = job.op.id /\ j.op.phase = "submitting" /\ j.target = job.target
        /\ j.status = job.status /\ j.owner = job.owner /\ j.destroyed = job.destroyed /\ j.cleanup
    BY <2>1, <2>2, <2>3 DEF JobRows, Armed
  <2>5. job.op.id # None /\ Unused(job.op.id) /\ Owns(c) /\ job.op.id = runs[c].op.id /\ job.target = None
    BY <1>0, <1>2 DEF CanArm, IInv, RowsHonest, RunHonest, OwnerInformed
  <2>6. JobMay(c, j)
    BY <2>4, <2>5, JobStays, IdleRow DEF JobMay
  <2>7. PICK r : r = [runs[c] EXCEPT !.pc = "abandon"]
    OBVIOUS
  <2>8. /\ r \in RunRows /\ r.pc = "abandon" /\ r.op = runs[c].op /\ r.known = runs[c].known
        /\ r.moref = runs[c].moref /\ r.target = runs[c].target
    BY <2>7, RunFacts DEF RunRows, PCs
  <2>9. RunMay(c, j, r)
    BY <1>0, <2>4, <2>5, <2>8, Known DEF RunMay, RunHonest, OwnerInformed, Early
  <2>10. runs' = [runs EXCEPT ![c] = r]
    BY <1>2, <2>7 DEF Goto, Set
  <2> QED BY <1>2, <2>1, <2>6, <2>9, <2>10, JobStepKeeps DEF Moves, StartClone
<1>3. CASE UNCHANGED job /\ Set(c, [runs[c] EXCEPT !.pc = "abandon", !.cause = IF NameTaken THEN "manual" ELSE @])
  <2>1. PICK u : u = IF NameTaken THEN "manual" ELSE runs[c].cause
    OBVIOUS
  <2>2. PICK r : r = [runs[c] EXCEPT !.pc = "abandon", !.cause = u]
    OBVIOUS
  <2>3. runs[c] \in RunRows /\ runs \in [Tokens -> RunRows]
    BY RunFacts
  <2>4. u \in Causes
    BY <2>1, <2>3 DEF RunRows, Causes
  <2>5. /\ r \in RunRows /\ r.pc = "abandon" /\ r.op = runs[c].op /\ r.known = runs[c].known
        /\ r.moref = runs[c].moref /\ r.target = runs[c].target
    BY <2>2, <2>3, <2>4 DEF RunRows, PCs, Causes
  <2>6. runs' = [runs EXCEPT ![c] = r]
    BY <1>3, <2>1, <2>2, <2>3 DEF Set, RunRows
  <2>7. Owns(c) => Unused(runs[c].op.id)
    BY <1>0 DEF OwnerInformed, IInv, RowsHonest
  <2>8. RunMay(c, job, r)
    BY <1>0, <2>5, <2>7, Known DEF RunMay, RunHonest, OwnerInformed, Early, Owns
  <2> QED BY <1>3, <2>6, <2>8, RunStepKeeps DEF Moves, StartClone
<1> QED BY <1>1, <1>2, <1>3 DEF StartClone

\* An operation that was never submitted is dropped.
LEMMA AbandonedMay ==
  ASSUME IInv, NEW c \in Tokens, Owns(c), job.op.id # None, Unused(job.op.id), NEW j, j = Abandoned(job)
  PROVE  JobMay(c, j) /\ j.target = job.target /\ j.status = job.status /\ j.owner = job.owner /\ j.op = NoOp
<1>1. job \in JobRows
  BY RunFacts
<1>2. /\ j \in JobRows /\ j.op = NoOp /\ j.target = job.target
      /\ j.status = job.status /\ j.owner = job.owner /\ j.destroyed = job.destroyed
      /\ j.cleanup = IF job.target = None THEN FALSE ELSE job.cleanup
  BY <1>1, IdleRow DEF JobRows, Abandoned
<1>3. ~Out(job.op.id)
  BY DEF Out, Unused, Live
<1>4. j.target # None => j.cleanup
  BY <1>2 DEF IInv, RowsHonest
<1> QED BY <1>2, <1>3, <1>4, JobStays, IdleRow DEF JobMay, IInv, OutTraceable

\* An armed operation is given up before its call.
LEMMA AbandonKeeps ==
  ASSUME IInv, NEW c \in Tokens, AbandonClone(c)
  PROVE  IInv'
<1>0. /\ runs[c].pc = "abandon" /\ (Owns(c) => OwnerInformed(job, runs[c])) /\ runs[c].op.id # None
      /\ Owns(c) => job.target = None
  BY RunFacts DEF AbandonClone, At, RunHonest, OwnerInformed
<1>1. CASE Returns(c, "comp", None) /\ UNCHANGED job
  BY <1>1, ReturnsMovesHere, Known, RunStepKeeps DEF Outs, AbandonClone
<1>2. ASSUME NEW j, JobMay(c, j), j.target = job.target, Owns(c), job' = j,
             \/ IF runs[c].cause = "manual" THEN Returns(c, "manual", None) ELSE FailsBeforeClone(c)
             \/ Returns(c, "comp", None)
      PROVE  IInv'
  <2>1. Moves(c, j)
    <3>1. CASE FailsBeforeClone(c)
      BY <3>1, <1>0, <1>2, BeforeMoves
    <3>2. CASE Returns(c, "manual", None) \/ Returns(c, "comp", None)
      BY <3>2, <1>2, ReturnsMoves, Known DEF Outs
    <3> QED BY <1>2, <3>1, <3>2
  <2> QED BY <1>2, <2>1, JobStepKeeps DEF AbandonClone
<1>3. CASE /\ AbandonAccepted(c)
           /\ job' = IF CanAbandon(c) THEN Abandoned(job) ELSE job
           /\ \/ IF runs[c].cause = "manual" THEN Returns(c, "manual", None) ELSE FailsBeforeClone(c)
              \/ Returns(c, "comp", None)
  <2>0. Owns(c)
    BY <1>3 DEF AbandonAccepted, CanAbandon
  <2>1. CASE CanAbandon(c)
    <3>1. PICK j : j = Abandoned(job)
      OBVIOUS
    <3>2. job.op.id # None /\ Unused(job.op.id)
      BY <1>0, <2>0, <2>1 DEF CanAbandon, OwnerInformed
    <3>3. JobMay(c, j) /\ j.target = job.target
      BY <2>0, <3>1, <3>2, AbandonedMay
    <3> QED BY <1>2, <1>3, <2>0, <2>1, <3>1, <3>3
  <2>2. CASE ~CanAbandon(c)
    <3>1. PICK j : j = job
      OBVIOUS
    <3> QED BY <1>2, <1>3, <2>0, <2>2, <3>1, JobStays
  <2> QED BY <2>1, <2>2
<1> QED BY <1>1, <1>3 DEF AbandonClone

\* vCenter takes the armed clone.
LEMMA SubmitKeeps ==
  ASSUME IInv, NEW c \in Tokens, SubmitClone(c)
  PROVE  IInv'
<1>0. /\ runs[c].pc = "submit" /\ (Owns(c) => OwnerInformed(job, runs[c])) /\ RunHonest(runs[c])
      /\ runs[c] \in RunRows
  BY RunFacts DEF SubmitClone, At
<1>1. CASE Returns(c, "comp", None) /\ UNCHANGED vc
  BY <1>1, ReturnsMovesHere, Known, RunStepKeeps DEF Outs, SubmitClone
<1>2. CASE /\ vc' = [vc EXCEPT ![runs[c].op.id] = "pending"]
           /\ Goto(c, "persist") \/ Returns(c, "comp", None)
  <2>1. Moves(c, job)
    <3>1. CASE Goto(c, "persist")
      <4>1. PICK r : r = [runs[c] EXCEPT !.pc = "persist"]
        OBVIOUS
      <4>2. /\ r \in RunRows /\ r.pc = "persist" /\ r.op = runs[c].op /\ r.known = runs[c].known
            /\ r.moref = runs[c].moref /\ r.target = runs[c].target
        BY <1>0, <4>1 DEF RunRows, PCs
      <4>3. RunMay(c, job, r)
        BY <1>0, <4>2, Known DEF RunMay, RunHonest, OwnerInformed, Early, Owns
      <4>4. runs' = [runs EXCEPT ![c] = r]
        BY <3>1, <4>1 DEF Goto, Set
      <4> QED BY <4>3, <4>4 DEF Moves
    <3>2. CASE Returns(c, "comp", None)
      BY <3>2, ReturnsMovesHere, Known DEF Outs
    <3> QED BY <1>2, <3>1, <3>2
  <2>2. PICK r : RunMay(c, job, r) /\ runs' = [runs EXCEPT ![c] = r]
    BY <2>1 DEF Moves
  <2>t. /\ job \in JobRows /\ vm \in VMRows /\ vc \in [Ops -> States]
        /\ runs \in [Tokens -> RunRows] /\ del \in DelRows
    BY TypeFlat DEF IInv
  <2>3. PICK o : o = runs[c].op.id
    OBVIOUS
  <2>4. o \in Ops /\ vc[o] = "none" /\ Out(o)
    <3>1. runs[c].op \in OpRows /\ runs[c].op.id # None
      BY <1>0 DEF RunRows, RunHonest
    <3> QED BY <1>0, <2>3, <3>1 DEF RunHonest, OpRows, Out, At
  <2>5. /\ vc' \in [Ops -> States] /\ vc'[o] = "pending" /\ \A p \in Ops \ {o} : vc'[p] = vc[p]
    BY <1>2, <2>t, <2>3, <2>4 DEF States
  <2>6. UNCHANGED <<job, vm, del>>
    BY DEF SubmitClone
  <2>7. /\ r \in RunRows /\ r.pc # "submit" /\ runs'[c] = r /\ \A d \in Tokens \ {c} : runs'[d] = runs[d]
    BY <2>2, <2>t DEF RunMay
  <2>u. TypeOK'
    BY <2>t, <2>2, <2>5, <2>6, <2>7, TypeFlatNext
  <2>8. Made' = Made
    BY <2>4, <2>5 DEF Made
  <2>9. ASSUME NEW p \in Ops, Out(p)' PROVE Out(p)
    BY <2>4, <2>5, <2>7, <2>9 DEF Out, Live, At
  <2>10. ASSUME NEW p \in Ops, Unused(p) PROVE Unused(p)'
    <3>1. p # o
      BY <1>0, <2>3, <2>10 DEF Unused, At
    <3> QED BY <3>1, <2>5, <2>7, <2>10 DEF Unused, At
  <2>11. ASSUME NEW d \in Tokens PROVE RunHonest(runs[d])'
    <3>1. runs'[d].moref \in Ops \cup {None}
      BY <2>u, TypeFlatNext DEF RunRows
    <3>2. CASE d = c
      <4>1. RunHonest(r)
        BY <2>2 DEF RunMay
      <4>2. r.pc = "complete" => vc'[r.moref] = "gone"
        BY <4>1, <2>4, <2>5, <2>7, <3>1, <3>2 DEF RunHonest
      <4> QED BY <3>2, <4>1, <4>2, <2>7, <2>8 DEF RunHonest
    <3>3. CASE d # c
      <4>1. RunHonest(runs[d])
        BY DEF IInv, RunsHonest
      <4>2. runs[d].pc = "complete" => vc'[runs[d].moref] = "gone"
        BY <4>1, <2>4, <2>5, <2>7, <3>1, <3>3 DEF RunHonest
      <4>3. runs[d].pc = "submit" => vc'[runs[d].op.id] = "none"
        <5>1. runs[d].pc = "submit" => runs[d].op.id # o /\ runs[d].op.id \in Ops
          <6>1. runs[d].op \in OpRows
            BY <2>t DEF RunRows
          <6> QED BY <1>0, <2>3, <3>3, <4>1, <6>1 DEF IInv, SubmitsOnce, At, RunHonest, OpRows
        <5> QED BY <5>1, <4>1, <2>5 DEF RunHonest
      <4> QED BY <3>3, <4>1, <4>2, <4>3, <2>7, <2>8 DEF RunHonest
    <3> QED BY <3>2, <3>3
  <2>12. ASSUME NEW d \in Tokens, Owns(d)
         PROVE  /\ OwnerInformed(job, runs'[d])
                /\ {runs'[d].op.id, runs'[d].known, runs'[d].moref, runs'[d].target} \subseteq Names(d)
    <3>1. CASE d = c
      BY <3>1, <2>2, <2>7, <2>12 DEF RunMay, Owns
    <3>2. CASE d # c
      BY <3>2, <2>7, <2>12 DEF IInv, RunsHonest, Names
    <3> QED BY <3>1, <3>2
  <2>13. SubmitsOnce'
    BY <2>7 DEF IInv, SubmitsOnce, At
  <2>14. /\ del'.moref \in Made /\ (del'.pc = "destroy" => del'.moref # None)
         /\ (del'.pc = "clear" => vm.status = "deleted")
    BY <2>6 DEF IInv, RowsHonest
  <2>15. \A p \in Ops : vc[p] = "gone" => vc'[p] = "gone"
    BY <2>4, <2>5
  <2> QED BY <2>u, <2>6, <2>8, <2>9, <2>10, <2>11, <2>12, <2>13, <2>14, <2>15, VCKeeps
<1> QED BY <1>1, <1>2 DEF SubmitClone

\* vCenter changes a clone nobody has armed and nothing is put out.
LEMMA FinishesKeeps ==
  ASSUME IInv, NEW o \in Ops, CloneFinishes(o)
  PROVE  IInv'
<1>t. /\ job \in JobRows /\ vm \in VMRows /\ vc \in [Ops -> States]
      /\ runs \in [Tokens -> RunRows] /\ del \in DelRows
  BY TypeFlat DEF IInv
<1>1. vc[o] = "pending" /\ UNCHANGED <<job, vm, runs, del>>
  BY DEF CloneFinishes
<1>2. /\ vc' \in [Ops -> States] /\ vc'[o] \in {"exists", "failed"} /\ \A p \in Ops \ {o} : vc'[p] = vc[p]
  BY <1>t DEF CloneFinishes, States
<1>u. TypeOK'
  BY <1>t, <1>1, <1>2, TypeFlatNext
<1>3. Made \subseteq Made' /\ \A p \in Ops : vc[p] = "gone" => vc'[p] = "gone"
  BY <1>1, <1>2 DEF Made
<1>4. ASSUME NEW p \in Ops PROVE (Out(p)' => Out(p)) /\ (Unused(p) => Unused(p)')
  BY <1>1, <1>2 DEF Out, Live, At, Unused
<1>5. ASSUME NEW d \in Tokens PROVE RunHonest(runs[d])'
  <2>1. runs[d] \in RunRows /\ runs[d].op \in OpRows /\ runs[d].moref \in Ops \cup {None} /\ RunHonest(runs[d])
    BY <1>t DEF RunRows, IInv, RunsHonest
  <2>2. runs[d].pc = "complete" => vc'[runs[d].moref] = "gone"
    BY <2>1, <1>1, <1>2 DEF RunHonest
  <2>3. runs[d].pc = "submit" => vc'[runs[d].op.id] = "none"
    BY <2>1, <1>1, <1>2 DEF RunHonest, OpRows
  <2>4. runs[d].op.id \in Made => runs[d].op.id \in Made'
    BY <1>3
  <2> QED BY <2>1, <2>2, <2>3, <2>4, <1>1, <1>3 DEF RunHonest
<1>6. ASSUME NEW d \in Tokens, Owns(d)
      PROVE  /\ OwnerInformed(job, runs'[d])
             /\ {runs'[d].op.id, runs'[d].known, runs'[d].moref, runs'[d].target} \subseteq Names(d)
  BY <1>1, <1>6 DEF IInv, RunsHonest, Names
<1>7. SubmitsOnce'
  BY <1>1 DEF IInv, SubmitsOnce, At
<1>8. /\ del'.moref \in Made /\ (del'.pc = "destroy" => del'.moref # None)
      /\ (del'.pc = "clear" => vm.status = "deleted")
  BY <1>1 DEF IInv, RowsHonest
<1> QED BY <1>u, <1>1, <1>3, <1>4, <1>5, <1>6, <1>7, <1>8, VCKeeps

\* The task reference is saved.
LEMMA PersistKeeps ==
  ASSUME IInv, NEW c \in Tokens, PersistTask(c)
  PROVE  IInv'
<1>0. /\ runs[c].pc = "persist" /\ (Owns(c) => OwnerInformed(job, runs[c])) /\ RunHonest(runs[c])
      /\ runs[c] \in RunRows /\ (Owns(c) => job.target = None)
  BY RunFacts DEF PersistTask, At, OwnerInformed
<1>1. CASE Returns(c, "comp", None) /\ UNCHANGED job
  BY <1>1, ReturnsMovesHere, Known, RunStepKeeps DEF Outs, PersistTask
<1>2. CASE /\ Owns(c) /\ job.op.id = runs[c].op.id /\ job' = TaskPersisted(job)
           /\ \/ Set(c, [runs[c] EXCEPT !.pc = "wait", !.op = job'.op])
              \/ Returns(c, "comp", None)
  <2>1. PICK j : j = TaskPersisted(job)
    OBVIOUS
  <2>2. job \in JobRows /\ job.op \in OpRows /\ job.op.id # None
    BY <1>0, <1>2, RunFacts DEF JobRows, RunHonest
  <2>3. PICK op : op = [job.op EXCEPT !.task = TRUE, !.phase = "submitted"]
    OBVIOUS
  <2>4. op \in OpRows /\ op.id = job.op.id /\ op.phase = "submitted"
    BY <2>2, <2>3 DEF OpRows
  <2>5. j = [job EXCEPT !.op = op]
    BY <2>1, <2>2, <2>3 DEF TaskPersisted, JobRows, OpRows
  <2>6. /\ j \in JobRows /\ j.op = op /\ j.target = job.target
        /\ j.status = job.status /\ j.owner = job.owner /\ j.destroyed = job.destroyed /\ j.cleanup = job.cleanup
    BY <2>2, <2>4, <2>5 DEF JobRows
  <2>7. JobMay(c, j)
    BY <1>2, <2>2, <2>4, <2>6, JobStays, IdleRow DEF JobMay
  <2>8. Moves(c, j)
    <3>1. CASE Set(c, [runs[c] EXCEPT !.pc = "wait", !.op = job'.op])
      <4>1. PICK r : r = [runs[c] EXCEPT !.pc = "wait", !.op = op]
        OBVIOUS
      <4>2. /\ r \in RunRows /\ r.pc = "wait" /\ r.op = op /\ r.known = runs[c].known
            /\ r.moref = runs[c].moref /\ r.target = runs[c].target
        BY <1>0, <2>4, <4>1 DEF RunRows, PCs
      <4>3. RunMay(c, j, r)
        BY <1>0, <1>2, <2>2, <2>4, <2>6, <4>2, Known
        DEF RunMay, RunHonest, OwnerInformed, Early, Names
      <4>4. runs' = [runs EXCEPT ![c] = r]
        BY <1>2, <2>1, <2>6, <3>1, <4>1 DEF Set
      <4> QED BY <4>3, <4>4 DEF Moves
    <3>2. CASE Returns(c, "comp", None)
      BY <3>2, ReturnsMoves, Known DEF Outs
    <3> QED BY <1>2, <3>1, <3>2
  <2> QED BY <1>2, <2>1, <2>7, <2>8, JobStepKeeps DEF PersistTask
<1> QED BY <1>1, <1>2 DEF PersistTask

\* The clone task ends, or the wait does.
LEMMA WaitKeeps ==
  ASSUME IInv, NEW c \in Tokens, WaitTask(c)
  PROVE  IInv'
<1>0. /\ runs[c].pc = "wait" /\ (Owns(c) => OwnerInformed(job, runs[c])) /\ RunHonest(runs[c])
      /\ runs[c] \in RunRows /\ (Owns(c) => job.target = None)
  BY RunFacts DEF WaitTask, At, OwnerInformed
<1>1. CASE \E out \in Outs : Returns(c, out, None)
  BY <1>0, <1>1, ReturnsMovesHere, Known, RunStepKeeps DEF WaitTask
<1>2. CASE Resolves(runs[c].op) /\ Set(c, [runs[c] EXCEPT !.pc = "stage", !.moref = runs[c].op.id])
  <2>1. PICK r : r = [runs[c] EXCEPT !.pc = "stage", !.moref = runs[c].op.id]
    OBVIOUS
  <2>2. runs[c].op \in OpRows /\ runs[c].op.id \in Ops
    BY <1>0 DEF RunRows, OpRows, RunHonest
  <2>3. /\ r \in RunRows /\ r.pc = "stage" /\ r.op = runs[c].op /\ r.known = runs[c].known
        /\ r.moref = runs[c].op.id /\ r.target = runs[c].target
    BY <1>0, <2>1, <2>2 DEF RunRows, PCs
  <2>4. runs[c].op.id \in Made
    BY <1>2, <2>2 DEF Resolves, Made
  <2>5. RunMay(c, job, r)
    BY <1>0, <2>2, <2>3, <2>4, Known DEF RunMay, RunHonest, OwnerInformed, Early, Owns
  <2>6. runs' = [runs EXCEPT ![c] = r]
    BY <1>2, <2>1 DEF Set
  <2> QED BY <2>5, <2>6, RunStepKeeps DEF Moves, WaitTask
<1> QED BY <1>1, <1>2 DEF WaitTask, Outs

\* The clone at hand is staged: the target was none or that clone.
LEMMA StagedMay ==
  ASSUME IInv, NEW c \in Tokens, Owns(c), NEW o \in Made \ {None}, o \in Names(c), NEW j, j = Staged(job, o)
  PROVE  JobMay(c, j) /\ j.target = o /\ j.status = job.status /\ j.owner = job.owner /\ j.op = job.op
<1>1. job \in JobRows /\ o \in Ops
  BY RunFacts DEF Made
<1>2. /\ j \in JobRows /\ j.op = job.op /\ j.target = o /\ j.cleanup
      /\ j.status = job.status /\ j.owner = job.owner /\ j.destroyed = job.destroyed
  BY <1>1 DEF JobRows, Staged
<1>3. job.target \in {None, o}
  <2>1. PICK q \in Ops \cup {None} :
           /\ {job.op.id, job.target, vm.moref} \subseteq {None, q}
           /\ \A d \in Tokens : Owns(d) =>
                 {runs[d].op.id, runs[d].known, runs[d].moref, runs[d].target} \subseteq {None, q}
    BY DEF IInv, OneClone
  <2>2. Names(c) \subseteq {None, q}
    BY <2>1 DEF Names
  <2> QED BY <2>1, <2>2
<1> QED BY <1>2, <1>3, JobStays DEF JobMay

\* The clone's identity is staged on the job row.
LEMMA StageKeeps ==
  ASSUME IInv, NEW c \in Tokens, StageClone(c)
  PROVE  IInv'
<1>0. /\ runs[c].pc = "stage" /\ RunHonest(runs[c]) /\ runs[c] \in RunRows /\ runs[c].moref # None
  BY RunFacts DEF StageClone, At, RunHonest
<1>1. CASE FailWithCleanup(c, runs[c].moref, "comp") /\ UNCHANGED job
  BY <1>0, <1>1, FailMovesHere, Known, RunStepKeeps DEF Causes, StageClone
<1>2. CASE /\ Owns(c) /\ job' = Staged(job, runs[c].moref)
           /\ Goto(c, "configure") \/ FailWithCleanup(c, runs[c].moref, "comp")
  <2>1. PICK o : o = runs[c].moref
    OBVIOUS
  <2>2. PICK j : j = Staged(job, o)
    OBVIOUS
  <2>3. JobMay(c, j)
    BY <1>0, <1>2, <2>1, <2>2, Known, StagedMay
  <2>4. Moves(c, j)
    <3>1. CASE Goto(c, "configure")
      <4>1. PICK r : r = [runs[c] EXCEPT !.pc = "configure"]
        OBVIOUS
      <4>2. /\ r \in RunRows /\ r.pc = "configure" /\ r.op = runs[c].op /\ r.known = runs[c].known
            /\ r.moref = runs[c].moref /\ r.target = runs[c].target
        BY <1>0, <4>1 DEF RunRows, PCs
      <4>3. RunMay(c, j, r)
        BY <1>0, <4>2, Known DEF RunMay, RunHonest, OwnerInformed, Early
      <4>4. runs' = [runs EXCEPT ![c] = r]
        BY <3>1, <4>1 DEF Goto, Set
      <4> QED BY <4>3, <4>4 DEF Moves
    <3>2. CASE FailWithCleanup(c, runs[c].moref, "comp")
      BY <3>2, <1>0, FailMoves, Known DEF Causes
    <3> QED BY <1>2, <3>1, <3>2
  <2> QED BY <1>2, <2>1, <2>2, <2>3, <2>4, JobStepKeeps DEF StageClone
<1> QED BY <1>1, <1>2 DEF StageClone, CanStage

\* The clone is configured.
LEMMA ConfigureKeeps ==
  ASSUME IInv, NEW c \in Tokens, ConfigureClone(c)
  PROVE  IInv'
<1>0. /\ runs[c].pc = "configure" /\ RunHonest(runs[c]) /\ runs[c] \in RunRows /\ runs[c].moref # None
  BY RunFacts DEF ConfigureClone, At, RunHonest
<1>1. CASE \E cause \in Causes : FailWithCleanup(c, runs[c].moref, cause)
  BY <1>0, <1>1, FailMovesHere, Known, RunStepKeeps DEF ConfigureClone
<1>2. CASE Goto(c, "adopt")
  <2>1. PICK r : r = [runs[c] EXCEPT !.pc = "adopt"]
    OBVIOUS
  <2>2. /\ r \in RunRows /\ r.pc = "adopt" /\ r.op = runs[c].op /\ r.known = runs[c].known
        /\ r.moref = runs[c].moref /\ r.target = runs[c].target
    BY <1>0, <2>1 DEF RunRows, PCs
  <2>3. RunMay(c, job, r)
    BY <1>0, <2>2, Known DEF RunMay, RunHonest, OwnerInformed, Early
  <2>4. runs' = [runs EXCEPT ![c] = r]
    BY <1>2, <2>1 DEF Goto, Set
  <2> QED BY <2>3, <2>4, RunStepKeeps DEF Moves, ConfigureClone
<1> QED BY <1>1, <1>2 DEF ConfigureClone, Causes

\* The clone becomes the VM's.
LEMMA AdoptKeeps ==
  ASSUME IInv, NEW c \in Tokens, AdoptClone(c)
  PROVE  IInv'
<1>0. /\ runs[c].pc = "adopt" /\ RunHonest(runs[c]) /\ runs[c] \in RunRows /\ runs[c].moref # None
  BY RunFacts DEF AdoptClone, At, RunHonest
<1>1. CASE Returns(c, "comp", None) /\ UNCHANGED vm
  BY <1>1, ReturnsMovesHere, Known, RunStepKeeps DEF Outs, AdoptClone
<1>2. CASE FailWithCleanup(c, runs[c].moref, "plain") /\ UNCHANGED vm
  BY <1>0, <1>2, FailMovesHere, Known, RunStepKeeps DEF Causes, AdoptClone
<1>3. CASE /\ CanAdopt(c, runs[c].moref) /\ vm.status = "cloning" /\ vm.moref \in {None, runs[c].moref}
           /\ vm' = [status |-> "configuring", moref |-> runs[c].moref]
           /\ Goto(c, "disarm") \/ Returns(c, "comp", None)
  <2>t. /\ job \in JobRows /\ vm \in VMRows /\ vc \in [Ops -> States]
        /\ runs \in [Tokens -> RunRows] /\ del \in DelRows
    BY TypeFlat DEF IInv
  <2>1. PICK o : o = runs[c].moref
    OBVIOUS
  <2>2. o \in Ops /\ o \in Made /\ job.target = o /\ Owns(c)
    BY <1>0, <1>3, <2>1, Known DEF RunRows, CanAdopt
  <2>3. vm' \in VMRows /\ vm'.moref = o /\ vm'.status = "configuring"
    BY <1>3, <2>1, <2>2 DEF VMRows, Building
  <2>4. PICK r : /\ r \in RunRows /\ r.pc \in {"disarm", "settle", "idle"} /\ RunHonest(r)
                 /\ {r.op.id, r.known, r.moref, r.target} \subseteq Names(c)
                 /\ (r.pc = "disarm" => r.moref = o) /\ (r.pc = "settle" => r.out # "retry")
                 /\ runs' = [runs EXCEPT ![c] = r]
    <3>1. CASE Goto(c, "disarm")
      <4>1. PICK r : r = [runs[c] EXCEPT !.pc = "disarm"]
        OBVIOUS
      <4>2. /\ r \in RunRows /\ r.pc = "disarm" /\ r.op = runs[c].op /\ r.known = runs[c].known
            /\ r.moref = runs[c].moref /\ r.target = runs[c].target
        BY <1>0, <4>1 DEF RunRows, PCs
      <4>3. RunHonest(r)
        BY <1>0, <4>2 DEF RunHonest, Early
      <4>4. {r.op.id, r.known, r.moref, r.target} \subseteq Names(c)
        BY <4>2, Known
      <4>5. runs' = [runs EXCEPT ![c] = r]
        BY <3>1, <4>1 DEF Goto, Set
      <4> QED BY <2>1, <4>2, <4>3, <4>4, <4>5
    <3>2. CASE Returns(c, "comp", None)
      <4>1. PICK r : r = [IdleRun EXCEPT !.pc = "settle", !.out = "comp", !.target = None]
        OBVIOUS
      <4>2. /\ r \in RunRows /\ r.pc = "settle" /\ r.op = NoOp /\ r.known = None
            /\ r.moref = None /\ r.target = None /\ r.out = "comp"
        BY <4>1, IdleRow DEF RunRows, PCs
      <4>3. RunHonest(r)
        BY <4>2 DEF RunHonest, Early, Made
      <4>4. {r.op.id, r.known, r.moref, r.target} \subseteq Names(c)
        BY <4>2, IdleRow DEF Names
      <4>5. runs' = [runs EXCEPT ![c] = r]
        BY <2>2, <3>2, <4>1 DEF Returns, Set
      <4> QED BY <4>2, <4>3, <4>4, <4>5
    <3> QED BY <1>3, <3>1, <3>2
  <2>5. UNCHANGED <<job, vc, del>>
    BY DEF AdoptClone
  <2>u. TypeOK'
    BY <2>t, <2>3, <2>4, <2>5, TypeFlatNext
  <2>6. runs'[c] = r /\ \A d \in Tokens \ {c} : runs'[d] = runs[d]
    BY <2>t, <2>4
  <2>7. /\ \A p : Out(p)' => Out(p)
        /\ \A p : Unused(p) => Unused(p)'
    BY <2>4, <2>5, <2>6 DEF Out, Live, At, Unused
  <2>8. Made' = Made
    BY <2>5 DEF Made
  <2>9. RowsHonest'
    BY <1>3, <2>2, <2>3, <2>5, <2>7, <2>8 DEF RowsHonest, IInv
  <2>10. OneClone'
    <3>1. PICK q \in Ops \cup {None} :
             /\ {job.op.id, job.target, vm.moref} \subseteq {None, q}
             /\ \A d \in Tokens : Owns(d) =>
                   {runs[d].op.id, runs[d].known, runs[d].moref, runs[d].target} \subseteq {None, q}
      BY DEF IInv, OneClone
    <3>2. o = q /\ Names(c) \subseteq {None, q}
      BY <3>1, <2>2 DEF Names
    <3>3. ASSUME NEW d \in Tokens, Owns(d)'
          PROVE  {runs'[d].op.id, runs'[d].known, runs'[d].moref, runs'[d].target} \subseteq {None, q}
      <4>1. d = c
        BY <3>3, <2>2, <2>5 DEF Owns
      <4> QED BY <4>1, <3>2, <2>4, <2>6
    <3> QED BY <3>1, <3>2, <3>3, <2>3, <2>5 DEF OneClone
  <2>11. OneOut' /\ OutTraceable'
    BY <1>3, <2>1, <2>3, <2>5, <2>7 DEF IInv, OneOut, OutTraceable
  <2>12. RunsHonest'
    <3>1. ASSUME NEW d \in Tokens PROVE RunHonest(runs[d])'
      <4>1. CASE d = c
        BY <4>1, <2>4, <2>5, <2>6, <2>8 DEF RunHonest
      <4>2. CASE d # c
        BY <4>2, <2>5, <2>6, <2>8 DEF IInv, RunsHonest, RunHonest
      <4> QED BY <4>1, <4>2
    <3>2. ASSUME NEW d \in Tokens, Owns(d)' PROVE OwnerInformed(job, runs[d])'
      <4>1. d = c
        BY <3>2, <2>2, <2>5 DEF Owns
      <4> QED BY <4>1, <2>3, <2>4, <2>6 DEF OwnerInformed, Early
    <3> QED BY <3>1, <3>2 DEF RunsHonest
  <2>13. SubmitsOnce'
    BY <2>4, <2>6 DEF SubmitsOnce, IInv, At
  <2>14. RecordedIsGone'
    BY <2>5 DEF RecordedIsGone, IInv
  <2> QED BY <2>u, <2>9, <2>10, <2>11, <2>12, <2>13, <2>14 DEF IInv
<1> QED BY <1>1, <1>2, <1>3 DEF AdoptClone

\* The armed cleanup is disarmed by the owner of the job.
LEMMA DisarmKeeps ==
  ASSUME IInv, NEW c \in Tokens, DisarmCleanup(c)
  PROVE  IInv'
<1>0. /\ runs[c].pc = "disarm" /\ RunHonest(runs[c]) /\ runs[c] \in RunRows /\ runs[c].moref # None
      /\ (Owns(c) => OwnerInformed(job, runs[c]))
  BY RunFacts DEF DisarmCleanup, At, RunHonest
<1>1. CASE Returns(c, "comp", runs[c].moref) /\ UNCHANGED job
  BY <1>1, ReturnsMovesHere, Known, RunStepKeeps DEF Outs, DisarmCleanup
<1>2. CASE /\ Owns(c) /\ job.target = runs[c].moref /\ job' = Disarmed(job)
           /\ Goto(c, "power") \/ Returns(c, "comp", runs[c].moref)
  <2>1. PICK j : j = Disarmed(job)
    OBVIOUS
  <2>2. /\ j \in JobRows /\ j.op = NoOp /\ j.target = None
        /\ j.status = job.status /\ j.owner = job.owner /\ j.destroyed = job.destroyed
    BY <2>1, RunFacts, IdleRow DEF JobRows, Disarmed
  <2>3. ASSUME vm.status # "deleted", NEW p \in Ops, Out(p) PROVE p = vm.moref
    <3>1. PICK q \in Ops \cup {None} :
             /\ {job.op.id, job.target, vm.moref} \subseteq {None, q}
             /\ \A d \in Tokens : Owns(d) =>
                   {runs[d].op.id, runs[d].known, runs[d].moref, runs[d].target} \subseteq {None, q}
      BY DEF IInv, OneClone
    <3>2. p \in {job.op.id, job.target, vm.moref}
      BY <2>3 DEF IInv, OutTraceable
    <3>3. p = runs[c].moref
      BY <1>0, <1>2, <3>1, <3>2
    <3> QED BY <1>0, <1>2, <2>3, <3>3 DEF OwnerInformed
  <2>4. JobMay(c, j)
    BY <1>2, <2>2, <2>3, IdleRow, JobStays DEF JobMay, Made, Names
  <2>5. Moves(c, j)
    <3>1. CASE Goto(c, "power")
      <4>1. PICK r : r = [runs[c] EXCEPT !.pc = "power"]
        OBVIOUS
      <4>2. /\ r \in RunRows /\ r.pc = "power" /\ r.op = runs[c].op /\ r.known = runs[c].known
            /\ r.moref = runs[c].moref /\ r.target = runs[c].target
        BY <1>0, <4>1 DEF RunRows, PCs
      <4>3. RunMay(c, j, r)
        BY <1>0, <2>2, <4>2, Known DEF RunMay, RunHonest, OwnerInformed, Early
      <4>4. runs' = [runs EXCEPT ![c] = r]
        BY <3>1, <4>1 DEF Goto, Set
      <4> QED BY <4>3, <4>4 DEF Moves
    <3>2. CASE Returns(c, "comp", runs[c].moref)
      BY <3>2, ReturnsMoves, Known DEF Outs
    <3> QED BY <1>2, <3>1, <3>2
  <2> QED BY <1>2, <2>1, <2>4, <2>5, JobStepKeeps DEF DisarmCleanup
<1> QED BY <1>1, <1>2 DEF DisarmCleanup

\* The clone is powered on.
LEMMA PowerKeeps ==
  ASSUME IInv, NEW c \in Tokens, PowerOn(c)
  PROVE  IInv'
<1>0. /\ runs[c].pc = "power" /\ RunHonest(runs[c]) /\ runs[c] \in RunRows /\ runs[c].moref # None
      /\ (Owns(c) => job.target = None)
  BY RunFacts DEF PowerOn, At, RunHonest, OwnerInformed
<1>1. CASE Returns(c, "manual", None)
  BY <1>1, ReturnsMovesHere, Known, RunStepKeeps DEF Outs, PowerOn
<1>2. CASE FailsAfterClone(c)
  BY <1>0, <1>2, AfterMovesHere, RunStepKeeps DEF PowerOn
<1>3. CASE Goto(c, "mark")
  <2>1. PICK r : r = [runs[c] EXCEPT !.pc = "mark"]
    OBVIOUS
  <2>2. /\ r \in RunRows /\ r.pc = "mark" /\ r.op = runs[c].op /\ r.known = runs[c].known
        /\ r.moref = runs[c].moref /\ r.target = runs[c].target
    BY <1>0, <2>1 DEF RunRows, PCs
  <2>3. RunMay(c, job, r)
    BY <1>0, <2>2, Known DEF RunMay, RunHonest, OwnerInformed, Early, Owns
  <2>4. runs' = [runs EXCEPT ![c] = r]
    BY <1>3, <2>1 DEF Goto, Set
  <2> QED BY <2>3, <2>4, RunStepKeeps DEF Moves, PowerOn
<1> QED BY <1>1, <1>2, <1>3 DEF PowerOn

\* The status writes never take a VM out of deleted.
LEMMA StatusMay ==
  ASSUME IInv, NEW from, NEW status, "deleted" \notin from, status \in {"running", "error", "cloning"},
         StatusFrom(from, status)
  PROVE  VMMay(vm')
<1>1. vm \in VMRows
  BY TypeFlat DEF IInv
<1>2. CASE vm.status \in from
  BY <1>1, <1>2 DEF StatusFrom, VMMay, VMRows, Building
<1>3. CASE vm.status \notin from
  BY <1>1, <1>3 DEF StatusFrom, VMMay
<1> QED BY <1>2, <1>3

\* The VM row goes to running.
LEMMA MarkKeeps ==
  ASSUME IInv, NEW c \in Tokens, MarkRunning(c)
  PROVE  IInv'
<1>0. /\ runs[c].pc = "mark" /\ RunHonest(runs[c]) /\ runs[c] \in RunRows /\ runs[c].moref # None
      /\ (Owns(c) => job.target = None)
  BY RunFacts DEF MarkRunning, At, RunHonest, OwnerInformed
<1>1. VMMay(vm')
  <2>1. CASE UNCHANGED vm
    BY <2>1, JobStays
  <2>2. CASE StatusFrom({"cloning", "configuring"}, "running")
    BY <2>2, StatusMay
  <2> QED BY <2>1, <2>2 DEF MarkRunning
<1>2. Moves(c, job)
  <2>1. CASE FailsAfterClone(c)
    BY <1>0, <2>1, AfterMovesHere
  <2>2. CASE Returns(c, "ok", None)
    BY <2>2, ReturnsMovesHere, Known DEF Outs
  <2>3. CASE FailWithCleanup(c, runs[c].moref, "plain")
    BY <1>0, <2>3, FailMovesHere, Known DEF Causes
  <2> QED BY <2>1, <2>2, <2>3 DEF MarkRunning
<1> QED BY <1>1, <1>2, VMStepKeeps DEF MarkRunning

\* c goes on where nothing is asked of it.
LEMMA FreeMoves ==
  ASSUME IInv, NEW c \in Tokens, NEW j, NEW pc \in {"load", "reload", "finalize", "record"}, Goto(c, pc)
  PROVE  Moves(c, j)
<1>1. PICK r : r = [runs[c] EXCEPT !.pc = pc]
  OBVIOUS
<1>2. runs' = [runs EXCEPT ![c] = r]
  BY <1>1 DEF Goto, Set
<1>3. /\ r \in RunRows /\ r.pc = pc /\ r.op = runs[c].op /\ r.known = runs[c].known
      /\ r.moref = runs[c].moref /\ r.target = runs[c].target
  BY <1>1, RunFacts DEF RunRows, PCs
<1>4. RunMay(c, j, r)
  BY <1>3, Known DEF RunMay, RunHonest, OwnerInformed, Early
<1> QED BY <1>2, <1>4 DEF Moves

\* An execution that only changes its place.
LEMMA FreeMovesHere ==
  ASSUME IInv, NEW c \in Tokens, NEW pc \in {"load", "reload", "finalize", "record"}, Goto(c, pc)
  PROVE  Moves(c, job)
<1>1. PICK j : j = job
  OBVIOUS
<1> QED BY <1>1, FreeMoves

\* An execution after a cleanup.
LEMMA AfterCleanupMoves ==
  ASSUME IInv, NEW c \in Tokens, NEW j, AfterCleanup(c)
  PROVE  Moves(c, j)
<1>1. CASE Returns(c, "comp", runs[c].target)
  BY <1>1, ReturnsMoves, Known DEF Outs
<1>2. CASE Returns(c, "manual", None) \/ Returns(c, "compensated", None)
  BY <1>2, ReturnsMoves, Known DEF Outs
<1> QED BY <1>1, <1>2 DEF AfterCleanup

\* A failed execution stages its clone for cleanup.
LEMMA StageFailedKeeps ==
  ASSUME IInv, NEW c \in Tokens, StageFailed(c)
  PROVE  IInv'
<1>0. /\ runs[c].pc = "fstage" /\ RunHonest(runs[c]) /\ runs[c] \in RunRows /\ runs[c].moref # None
  BY RunFacts DEF StageFailed, At, RunHonest
<1>1. CASE AfterCleanup(c) /\ UNCHANGED job
  <2>1. Moves(c, job)
    <3>1. PICK j : j = job
      OBVIOUS
    <3> QED BY <1>1, <3>1, AfterCleanupMoves
  <2> QED BY <1>1, <2>1, RunStepKeeps DEF StageFailed
<1>2. CASE Returns(c, "manual", None) /\ UNCHANGED job
  BY <1>2, ReturnsMovesHere, Known, RunStepKeeps DEF Outs, StageFailed
<1>3. CASE (\E t \in {None, runs[c].moref} : Returns(c, "comp", t)) /\ UNCHANGED job
  BY <1>3, ReturnsMovesHere, Known, RunStepKeeps DEF Outs, StageFailed
<1>4. CASE /\ Owns(c) /\ job' = Staged(job, runs[c].moref)
           /\ Goto(c, "load") \/ Returns(c, "comp", runs[c].moref)
  <2>1. PICK o : o = runs[c].moref
    OBVIOUS
  <2>2. PICK j : j = Staged(job, o)
    OBVIOUS
  <2>3. JobMay(c, j)
    BY <1>0, <1>4, <2>1, <2>2, Known, StagedMay
  <2>4. Moves(c, j)
    BY <1>4, FreeMoves, ReturnsMoves, Known DEF Outs
  <2> QED BY <1>4, <2>1, <2>2, <2>3, <2>4, JobStepKeeps DEF StageFailed
<1> QED BY <1>1, <1>2, <1>3, <1>4 DEF StageFailed, CanStage

\* An execution that destroys the clone it knows.
LEMMA CleanUpMoves ==
  ASSUME IInv, NEW c \in Tokens, NEW run, run \in RunRows, {run.known, run.moref, run.target} \subseteq Made,
         {run.known, run.moref, run.target} \subseteq Names(c), CleanUp(c, run)
  PROVE  Moves(c, job)
<1>1. PICK pc : pc = IF run.moref # None THEN "destroy" ELSE "finalize"
  OBVIOUS
<1>2. PICK r : r = [run EXCEPT !.op = NoOp, !.pc = pc]
  OBVIOUS
<1>3. runs' = [runs EXCEPT ![c] = r]
  BY <1>1, <1>2 DEF CleanUp, Set
<1>4. /\ r \in RunRows /\ r.pc = pc /\ r.op = NoOp /\ r.known = run.known
      /\ r.moref = run.moref /\ r.target = run.target
  <2>1. pc \in PCs
    BY <1>1 DEF PCs
  <2>2. NoOp \in OpRows
    BY IdleRow
  <2> QED BY <1>2, <2>1, <2>2 DEF RunRows
<1>5. r.op.id \in Names(c)
  BY <1>4, IdleRow DEF Names
<1>6. RunMay(c, job, r)
  BY <1>1, <1>4, <1>5 DEF RunMay, RunHonest, OwnerInformed, Early
<1> QED BY <1>3, <1>6 DEF Moves

\* The armed cleanup is loaded.
LEMMA LoadKeeps ==
  ASSUME IInv, NEW c \in Tokens, LoadCleanup(c)
  PROVE  IInv'
<1>1. CASE Returns(c, "comp", None)
  BY <1>1, ReturnsMovesHere, Known, RunStepKeeps DEF Outs, LoadCleanup
<1>2. CASE IF job.op # NoOp
           THEN Set(c, [[runs[c] EXCEPT !.op = job.op, !.moref = job.target] EXCEPT !.pc = "reconcile"])
           ELSE CleanUp(c, [runs[c] EXCEPT !.op = job.op, !.moref = job.target])
  <2>1. PICK run : run = [runs[c] EXCEPT !.op = job.op, !.moref = job.target]
    OBVIOUS
  <2>2. /\ run \in RunRows /\ run.op = job.op /\ run.moref = job.target /\ run.known = runs[c].known
        /\ run.target = runs[c].target
    <3>1. runs[c] \in RunRows /\ job.op \in OpRows /\ job.target \in Ops \cup {None}
      BY RunFacts DEF JobRows
    <3> QED BY <2>1, <3>1 DEF RunRows
  <2>3. CASE job.op = NoOp
    <3>1. CleanUp(c, run)
      BY <1>2, <2>1, <2>3
    <3> QED BY <2>2, <3>1, Known, CleanUpMoves, RunStepKeeps DEF LoadCleanup
  <2>4. CASE job.op # NoOp
    <3>1. PICK r : r = [run EXCEPT !.pc = "reconcile"]
      OBVIOUS
    <3>2. runs' = [runs EXCEPT ![c] = r]
      BY <1>2, <2>1, <2>4, <3>1 DEF Set
    <3>3. /\ r \in RunRows /\ r.pc = "reconcile" /\ r.op = job.op /\ r.moref = job.target /\ r.known = runs[c].known
          /\ r.target = runs[c].target
      BY <2>2, <3>1 DEF RunRows, PCs
    <3>4. job.op.id # None
      BY <2>4 DEF IInv, RowsHonest
    <3>5. RunMay(c, job, r)
      BY <3>3, <3>4, Known DEF RunMay, RunHonest, OwnerInformed, Early, Names
    <3> QED BY <3>2, <3>5, RunStepKeeps DEF Moves, LoadCleanup
  <2> QED BY <2>3, <2>4
<1> QED BY <1>1, <1>2 DEF LoadCleanup

\* The armed cleanup is read again.
LEMMA ReloadKeeps ==
  ASSUME IInv, NEW c \in Tokens, ReloadCleanup(c)
  PROVE  IInv'
<1>1. CASE Returns(c, "comp", None)
  BY <1>1, ReturnsMovesHere, Known, RunStepKeeps DEF Outs, ReloadCleanup
<1>2. CASE CleanUp(c, [runs[c] EXCEPT !.moref = IF job.target # None THEN job.target ELSE @])
  <2>0. PICK m : m = IF job.target # None THEN job.target ELSE runs[c].moref
    OBVIOUS
  <2>1. PICK run : run = [runs[c] EXCEPT !.moref = m]
    OBVIOUS
  <2>2. runs[c] \in RunRows /\ m \in Made /\ m \in Names(c) /\ m \in Ops \cup {None}
    BY <2>0, RunFacts, Known DEF Made
  <2>3. /\ run \in RunRows /\ run.op = runs[c].op /\ run.moref = m /\ run.known = runs[c].known
        /\ run.target = runs[c].target
    BY <2>1, <2>2 DEF RunRows
  <2>4. CleanUp(c, run)
    BY <1>2, <2>0, <2>1, <2>2 DEF RunRows
  <2>5. /\ {run.known, run.moref, run.target} \subseteq Made
        /\ {run.known, run.moref, run.target} \subseteq Names(c)
    BY <2>2, <2>3, Known
  <2> QED BY <2>3, <2>4, <2>5, CleanUpMoves, RunStepKeeps DEF ReloadCleanup
<1> QED BY <1>1, <1>2 DEF ReloadCleanup

\* An operation without an answer is reconciled with vCenter.
LEMMA ReconcileKeeps ==
  ASSUME IInv, NEW c \in Tokens, Reconcile(c)
  PROVE  IInv'
<1>0. /\ runs[c].pc = "reconcile" /\ RunHonest(runs[c]) /\ runs[c] \in RunRows /\ runs[c].op.id # None
      /\ (Owns(c) => job.op \in {NoOp, runs[c].op}) /\ runs[c].op \in OpRows
  BY RunFacts DEF Reconcile, At, RunHonest, OwnerInformed, RunRows
<1>1. CASE (Returns(c, "manual", None) \/ Returns(c, "comp", None)) /\ UNCHANGED job
  BY <1>1, ReturnsMovesHere, Known, RunStepKeeps DEF Outs, Reconcile
<1>2. CASE /\ Unsubmitted(runs[c].op) /\ AbandonAccepted(c)
           /\ job' = IF CanAbandon(c) THEN Abandoned(job) ELSE job
           /\ Goto(c, "reload") \/ Returns(c, "comp", None)
  <2>1. CASE CanAbandon(c)
    <3>1. PICK j : j = Abandoned(job)
      OBVIOUS
    <3>2. Owns(c) /\ job.op.id # None /\ Unused(job.op.id)
      BY <1>0, <1>2, <2>1, IdleRow DEF CanAbandon, Unsubmitted, IInv, RowsHonest
    <3>3. JobMay(c, j)
      BY <3>1, <3>2, AbandonedMay
    <3>4. Moves(c, j)
      BY <1>2, FreeMoves, ReturnsMoves, Known DEF Outs
    <3> QED BY <1>2, <2>1, <3>1, <3>3, <3>4, JobStepKeeps DEF Reconcile
  <2>2. CASE ~CanAbandon(c)
    <3>1. Moves(c, job)
      BY <1>2, FreeMovesHere, ReturnsMovesHere, Known DEF Outs
    <3> QED BY <1>2, <2>2, <3>1, RunStepKeeps DEF Reconcile
  <2> QED BY <2>1, <2>2
<1>3. CASE Resolves(runs[c].op) /\ Goto(c, "rstage") /\ UNCHANGED job
  <2>1. PICK r : r = [runs[c] EXCEPT !.pc = "rstage"]
    OBVIOUS
  <2>2. /\ r \in RunRows /\ r.pc = "rstage" /\ r.op = runs[c].op /\ r.known = runs[c].known
        /\ r.moref = runs[c].moref /\ r.target = runs[c].target
    BY <1>0, <2>1 DEF RunRows, PCs
  <2>3. runs[c].op.id \in Made
    BY <1>0, <1>3 DEF Resolves, Made, OpRows
  <2>4. RunMay(c, job, r)
    BY <1>0, <2>2, <2>3, Known DEF RunMay, RunHonest, OwnerInformed, Early, Owns
  <2>5. runs' = [runs EXCEPT ![c] = r]
    BY <1>3, <2>1 DEF Goto, Set
  <2> QED BY <1>3, <2>4, <2>5, RunStepKeeps DEF Moves, Reconcile
<1>4. CASE /\ vc[runs[c].op.id] = "failed" /\ Owns(c) /\ job.op.id = runs[c].op.id
           /\ job' = WithoutResource(job)
           /\ Goto(c, "reload") \/ Returns(c, "comp", None)
  <2>1. PICK j : j = WithoutResource(job)
    OBVIOUS
  <2>2. /\ j \in JobRows /\ j.op = NoOp /\ j.target = job.target /\ j.cleanup = job.cleanup
        /\ j.status = job.status /\ j.owner = job.owner /\ j.destroyed = job.destroyed
    <3>1. job \in JobRows
      BY RunFacts
    <3>2. PICK b \in BOOLEAN : b = IF job.target = None THEN TRUE ELSE job.done
      BY <3>1 DEF JobRows
    <3>3. j = [job EXCEPT !.op = NoOp, !.done = b]
      BY <2>1, <3>1, <3>2 DEF WithoutResource, JobRows
    <3> QED BY <3>1, <3>2, <3>3, IdleRow DEF JobRows
  <2>3. ~Out(job.op.id)
    BY <1>4 DEF Out, Live, At, IInv, RunsHonest, RunHonest
  <2>4. JobMay(c, j)
    BY <1>4, <2>2, <2>3, JobStays, IdleRow DEF JobMay
  <2>5. Moves(c, j)
    BY <1>4, FreeMoves, ReturnsMoves, Known DEF Outs
  <2> QED BY <1>4, <2>1, <2>4, <2>5, JobStepKeeps DEF Reconcile
<1> QED BY <1>1, <1>2, <1>3, <1>4 DEF Reconcile

\* The clone a reconciliation found is staged.
LEMMA StageReconciledKeeps ==
  ASSUME IInv, NEW c \in Tokens, StageReconciled(c)
  PROVE  IInv'
<1>0. runs[c].op.id \in Made \ {None} /\ runs[c].op.id \in Names(c)
  BY RunFacts, Known DEF StageReconciled, At, RunHonest
<1>1. CASE Returns(c, "comp", runs[c].op.id) /\ UNCHANGED job
  BY <1>0, <1>1, ReturnsMovesHere, RunStepKeeps DEF Outs, StageReconciled
<1>2. CASE /\ Owns(c) /\ job' = Staged(job, runs[c].op.id)
           /\ Goto(c, "reload") \/ Returns(c, "manual", None) \/ Returns(c, "comp", runs[c].op.id)
  <2>1. PICK o : o = runs[c].op.id
    OBVIOUS
  <2>2. PICK j : j = Staged(job, o)
    OBVIOUS
  <2>3. JobMay(c, j)
    BY <1>0, <1>2, <2>1, <2>2, StagedMay
  <2>4. Moves(c, j)
    BY <1>0, <1>2, FreeMoves, ReturnsMoves, Known DEF Outs
  <2> QED BY <1>2, <2>1, <2>2, <2>3, <2>4, JobStepKeeps DEF StageReconciled
<1> QED BY <1>1, <1>2 DEF StageReconciled, CanStage

\* Capacity is released and the VM row marked after a compensation.
LEMMA FinalizeKeeps ==
  ASSUME IInv, NEW c \in Tokens, Finalize(c)
  PROVE  IInv'
<1>1. VMMay(vm')
  <2>1. CASE UNCHANGED vm
    BY <2>1, JobStays
  <2>2. CASE StatusFrom(Building, "error")
    <3>1. "deleted" \notin Building
      BY DEF Building
    <3> QED BY <2>2, <3>1, StatusMay
  <2> QED BY <2>1, <2>2 DEF Finalize
<1>2. Moves(c, job)
  <2>1. CASE Goto(c, "record")
    BY <2>1, FreeMovesHere
  <2>2. CASE Returns(c, "comp", None) \/ Returns(c, "compensated", None)
    BY <2>2, ReturnsMovesHere, Known DEF Outs
  <2> QED BY <2>1, <2>2 DEF Finalize
<1> QED BY <1>1, <1>2, VMStepKeeps DEF Finalize

\* The destruction of the clone is recorded.
LEMMA RecordKeeps ==
  ASSUME IInv, NEW c \in Tokens, RecordCompensation(c)
  PROVE  IInv'
<1>1. CASE Returns(c, "comp", None) /\ UNCHANGED job
  BY <1>1, ReturnsMovesHere, Known, RunStepKeeps DEF Outs, RecordCompensation
<1>2. CASE /\ Owns(c) /\ job' = [job EXCEPT !.done = TRUE]
           /\ AfterCleanup(c) \/ Returns(c, "comp", None)
  <2>1. PICK j : j = [job EXCEPT !.done = TRUE]
    OBVIOUS
  <2>2. /\ j \in JobRows /\ j.op = job.op /\ j.target = job.target /\ j.cleanup = job.cleanup
        /\ j.status = job.status /\ j.owner = job.owner /\ j.destroyed = job.destroyed
    BY <2>1, RunFacts DEF JobRows
  <2>3. JobMay(c, j)
    BY <1>2, <2>2, JobStays DEF JobMay
  <2>4. Moves(c, j)
    BY <1>2, AfterCleanupMoves, ReturnsMoves, Known DEF Outs
  <2> QED BY <1>2, <2>1, <2>3, <2>4, JobStepKeeps DEF RecordCompensation
<1> QED BY <1>1, <1>2 DEF RecordCompensation

\* The clone at hand is destroyed in vCenter.
LEMMA DestroyKeeps ==
  ASSUME IInv, NEW c \in Tokens, DestroyExact(c)
  PROVE  IInv'
<1>0. /\ runs[c].pc = "destroy" /\ RunHonest(runs[c]) /\ runs[c] \in RunRows /\ runs[c].moref # None
      /\ runs[c].moref \in Made
  BY RunFacts, Known DEF DestroyExact, At, RunHonest
<1>1. CASE UNCHANGED vc /\ (Returns(c, "comp", runs[c].moref) \/ Returns(c, "manual", None))
  <2>1. Moves(c, job)
    BY <1>1, ReturnsMovesHere, Known DEF Outs
  <2> QED BY <1>1, <2>1, RunStepKeeps DEF DestroyExact
<1>2. CASE /\ vc' = [vc EXCEPT ![runs[c].moref] = IF @ = "exists" THEN "gone" ELSE @]
           /\ Goto(c, "complete") \/ Returns(c, "comp", runs[c].moref)
  <2>t. /\ job \in JobRows /\ vm \in VMRows /\ vc \in [Ops -> States]
        /\ runs \in [Tokens -> RunRows] /\ del \in DelRows
    BY TypeFlat DEF IInv
  <2>1. PICK o : o = runs[c].moref
    OBVIOUS
  <2>2. o \in Ops /\ vc[o] \in {"exists", "gone"}
    BY <1>0, <2>1 DEF Made
  <2>3. vc' \in [Ops -> States] /\ vc'[o] = "gone" /\ \A p \in Ops \ {o} : vc'[p] = vc[p]
    BY <1>2, <2>t, <2>1, <2>2 DEF States
  <2>4. Made' = Made /\ \A p \in Ops : vc[p] = "gone" => vc'[p] = "gone"
    BY <2>2, <2>3 DEF Made
  <2>5. PICK r : /\ r \in RunRows /\ r.pc \in {"complete", "settle", "idle"}
                 /\ {r.known, r.moref, r.target} \subseteq Made /\ (r.pc = "complete" => r.moref = o)
                 /\ Owns(c) => {r.op.id, r.known, r.moref, r.target} \subseteq Names(c)
                 /\ (r.pc = "settle" => r.out # "retry")
                 /\ runs' = [runs EXCEPT ![c] = r]
    <3>1. CASE Goto(c, "complete")
      <4>1. PICK r : r = [runs[c] EXCEPT !.pc = "complete"]
        OBVIOUS
      <4>2. /\ r \in RunRows /\ r.pc = "complete" /\ r.op = runs[c].op /\ r.known = runs[c].known
            /\ r.moref = runs[c].moref /\ r.target = runs[c].target
        BY <1>0, <4>1 DEF RunRows, PCs
      <4>3. runs' = [runs EXCEPT ![c] = r]
        BY <3>1, <4>1 DEF Goto, Set
      <4>4. {r.known, r.moref, r.target} \subseteq Made /\ {r.op.id, r.known, r.moref, r.target} \subseteq Names(c)
        BY <4>2, Known
      <4> QED BY <2>1, <4>2, <4>3, <4>4
    <3>2. CASE Returns(c, "comp", runs[c].moref)
      <4>1. PICK r : r = IF Owns(c) THEN [IdleRun EXCEPT !.pc = "settle", !.out = "comp", !.target = o]
                         ELSE IdleRun
        OBVIOUS
      <4>2. /\ r \in RunRows /\ r.pc \in {"settle", "idle"} /\ r.op = NoOp /\ r.known = None
            /\ r.moref = None /\ r.target \in {None, o} /\ (r.pc = "settle" => r.out = "comp")
        <5>1. CASE Owns(c)
          BY <5>1, <2>2, <4>1, IdleRow DEF RunRows, PCs
        <5>2. CASE ~Owns(c)
          BY <5>2, <4>1, IdleRow
        <5> QED BY <5>1, <5>2
      <4>3. runs' = [runs EXCEPT ![c] = r]
        BY <2>1, <3>2, <4>1 DEF Returns, Set
      <4>4. {r.known, r.moref, r.target} \subseteq Made /\ {r.op.id, r.known, r.moref, r.target} \subseteq Names(c)
        BY <2>1, <4>2, Known, IdleRow
      <4> QED BY <4>2, <4>3, <4>4
    <3> QED BY <1>2, <3>1, <3>2
  <2>6. UNCHANGED <<job, vm, del>>
    BY DEF DestroyExact
  <2>7. runs'[c] = r /\ \A d \in Tokens \ {c} : runs'[d] = runs[d]
    BY <2>t, <2>5
  <2>u. TypeOK'
    BY <2>t, <2>3, <2>5, <2>6, TypeFlatNext
  <2>8. ASSUME NEW p \in Ops PROVE (Out(p)' => Out(p)) /\ (Unused(p) => Unused(p)')
    BY <2>2, <2>3, <2>5, <2>7 DEF Out, Live, At, Unused
  <2>9. ASSUME NEW d \in Tokens PROVE RunHonest(runs[d])'
    <3>1. CASE d = c
      BY <3>1, <2>1, <1>0, <2>3, <2>4, <2>5, <2>7 DEF RunHonest, Early
    <3>2. CASE d # c
      <4>1. runs[d] \in RunRows /\ runs[d].op \in OpRows /\ runs[d].moref \in Ops \cup {None} /\ RunHonest(runs[d])
        BY <2>t DEF RunRows, IInv, RunsHonest
      <4>2. runs[d].pc = "complete" => vc'[runs[d].moref] = "gone"
        BY <4>1, <2>2, <2>3 DEF RunHonest
      <4>3. runs[d].pc = "submit" => vc'[runs[d].op.id] = "none"
        BY <4>1, <2>2, <2>3 DEF RunHonest, OpRows
      <4> QED BY <3>2, <4>1, <4>2, <4>3, <2>4, <2>7 DEF RunHonest
    <3> QED BY <3>1, <3>2
  <2>10. ASSUME NEW d \in Tokens, Owns(d)
         PROVE  /\ OwnerInformed(job, runs'[d])
                /\ {runs'[d].op.id, runs'[d].known, runs'[d].moref, runs'[d].target} \subseteq Names(d)
    <3>1. CASE d = c
      BY <3>1, <2>5, <2>7, <2>10 DEF OwnerInformed, Early
    <3>2. CASE d # c
      BY <3>2, <2>7, <2>10 DEF IInv, RunsHonest, Names
    <3> QED BY <3>1, <3>2
  <2>11. SubmitsOnce'
    BY <2>5, <2>7 DEF IInv, SubmitsOnce, At
  <2>12. /\ del'.moref \in Made /\ (del'.pc = "destroy" => del'.moref # None)
         /\ (del'.pc = "clear" => vm.status = "deleted")
    BY <2>6 DEF IInv, RowsHonest
  <2> QED BY <2>u, <2>4, <2>6, <2>8, <2>9, <2>10, <2>11, <2>12, VCKeeps
<1> QED BY <1>1, <1>2 DEF DestroyExact

\* The destruction is recorded and the VM row detached, with or without the claim.
LEMMA CompleteKeeps ==
  ASSUME IInv, NEW c \in Tokens, CompleteCleanup(c)
  PROVE  IInv'
<1>0. /\ runs[c].pc = "complete" /\ RunHonest(runs[c]) /\ runs[c] \in RunRows /\ runs[c].moref # None
  BY RunFacts DEF CompleteCleanup, At, RunHonest
<1>1. CASE Returns(c, "comp", runs[c].moref) /\ UNCHANGED <<job, vm>>
  BY <1>1, ReturnsMovesHere, Known, RunStepKeeps DEF Outs, CompleteCleanup
<1>2. CASE /\ (job.target = runs[c].moref) # (runs[c].moref \in job.destroyed)
           /\ job' = Destroyed(job, runs[c].moref)
           /\ vm' = Detached(vm, runs[c].moref)
           /\ Goto(c, "finalize") \/ Returns(c, "comp", runs[c].moref)
  <2>t. /\ job \in JobRows /\ vm \in VMRows /\ vc \in [Ops -> States]
        /\ runs \in [Tokens -> RunRows] /\ del \in DelRows
    BY TypeFlat DEF IInv
  <2>1. PICK o : o = runs[c].moref
    OBVIOUS
  <2>2. o \in Ops /\ vc[o] = "gone" /\ ~Out(o)
    <3>1. o \in Ops /\ vc[o] = "gone"
      BY <1>0, <2>1 DEF RunHonest, RunRows
    <3>2. ASSUME NEW d \in Tokens, runs[d].pc = "submit" PROVE vc[runs[d].op.id] = "none"
      BY <3>2 DEF IInv, RunsHonest, RunHonest
    <3> QED BY <3>1, <3>2 DEF Out, Live, At
  <2>3. PICK q \in Ops \cup {None} :
           /\ {job.op.id, job.target, vm.moref} \subseteq {None, q}
           /\ \A d \in Tokens : Owns(d) =>
                 {runs[d].op.id, runs[d].known, runs[d].moref, runs[d].target} \subseteq {None, q}
    BY DEF IInv, OneClone
  <2>4. \/ job' = job
        \/ /\ job.target = o /\ job' \in JobRows /\ job'.op = NoOp /\ job'.target = None
           /\ job'.status = job.status /\ job'.owner = job.owner /\ job'.destroyed = job.destroyed \cup {o}
    <3>1. CASE o \in job.destroyed
      BY <3>1, <1>2, <2>1 DEF Destroyed
    <3>2. CASE o \notin job.destroyed
      <4>1. job.target = o
        BY <1>2, <2>1, <3>2
      <4>2. PICK j : j = Destroyed(job, o)
        OBVIOUS
      <4>3. (job.target \in {o, None}) = TRUE
        BY <4>1
      <4>4. j = [job EXCEPT !.destroyed = @ \cup {o}, !.target = IF @ = o THEN None ELSE @,
                            !.cleanup = TRUE, !.op = NoOp, !.done = TRUE]
        BY <3>2, <4>2, <4>3 DEF Destroyed
      <4>5. /\ j \in JobRows /\ j.op = NoOp /\ j.target = None
            /\ j.status = job.status /\ j.owner = job.owner /\ j.destroyed = job.destroyed \cup {o}
        BY <2>t, <2>2, <4>1, <4>4, IdleRow DEF JobRows
      <4> QED BY <1>2, <2>1, <4>1, <4>2, <4>5
    <3> QED BY <3>1, <3>2
  <2>5. /\ vm' \in VMRows /\ (vm'.status = "deleted" <=> vm.status = "deleted")
        /\ vm'.moref \in {None, vm.moref} /\ (vm'.moref # vm.moref => vm.moref = o)
    BY <1>2, <2>t, <2>1 DEF Detached, VMRows, Building
  <2>6. UNCHANGED <<vc, del>>
    BY DEF CompleteCleanup
  <2>7. PICK r : /\ r \in RunRows /\ r.pc \in {"finalize", "settle", "idle"}
                 /\ {r.known, r.moref, r.target} \subseteq Made
                 /\ Owns(c) => {r.op.id, r.known, r.moref, r.target} \subseteq Names(c)
                 /\ (r.pc = "settle" => r.out # "retry")
                 /\ runs' = [runs EXCEPT ![c] = r]
    <3>1. CASE Goto(c, "finalize")
      <4>1. PICK r : r = [runs[c] EXCEPT !.pc = "finalize"]
        OBVIOUS
      <4>2. /\ r \in RunRows /\ r.pc = "finalize" /\ r.op = runs[c].op /\ r.known = runs[c].known
            /\ r.moref = runs[c].moref /\ r.target = runs[c].target
        BY <1>0, <4>1 DEF RunRows, PCs
      <4>3. runs' = [runs EXCEPT ![c] = r]
        BY <3>1, <4>1 DEF Goto, Set
      <4>4. {r.known, r.moref, r.target} \subseteq Made /\ {r.op.id, r.known, r.moref, r.target} \subseteq Names(c)
        BY <4>2, Known
      <4> QED BY <4>2, <4>3, <4>4
    <3>2. CASE Returns(c, "comp", runs[c].moref)
      <4>1. PICK r : r = IF Owns(c) THEN [IdleRun EXCEPT !.pc = "settle", !.out = "comp", !.target = o]
                         ELSE IdleRun
        OBVIOUS
      <4>2. /\ r \in RunRows /\ r.pc \in {"settle", "idle"} /\ r.op = NoOp /\ r.known = None
            /\ r.moref = None /\ r.target \in {None, o} /\ (r.pc = "settle" => r.out = "comp")
        <5>1. CASE Owns(c)
          BY <5>1, <2>2, <4>1, IdleRow DEF RunRows, PCs
        <5>2. CASE ~Owns(c)
          BY <5>2, <4>1, IdleRow
        <5> QED BY <5>1, <5>2
      <4>3. runs' = [runs EXCEPT ![c] = r]
        BY <2>1, <3>2, <4>1 DEF Returns, Set
      <4>4. {r.known, r.moref, r.target} \subseteq Made /\ {r.op.id, r.known, r.moref, r.target} \subseteq Names(c)
        BY <2>1, <4>2, Known, IdleRow
      <4> QED BY <4>2, <4>3, <4>4
    <3> QED BY <1>2, <3>1, <3>2
  <2>8. runs'[c] = r /\ \A d \in Tokens \ {c} : runs'[d] = runs[d]
    BY <2>t, <2>7
  <2>u. TypeOK'
    BY <2>t, <2>4, <2>5, <2>6, <2>7, TypeFlatNext
  <2>9. /\ \A p : Out(p)' => Out(p)
        /\ \A p : Unused(p) => Unused(p)'
    BY <2>6, <2>7, <2>8 DEF Out, Live, At, Unused
  <2>m. Made' = Made
    BY <2>6 DEF Made
  <2>w. \A d \in Tokens : Owns(d)' <=> Owns(d)
    BY <2>4 DEF Owns
  <2>10. RowsHonest'
    <3>1. CASE job' = job
      BY <3>1, <2>5, <2>6, <2>9, <2>m DEF RowsHonest, IInv, Made
    <3>2. CASE job'.op = NoOp /\ job'.target = None
      BY <3>2, <2>5, <2>6, <2>m, IdleRow DEF RowsHonest, IInv, Made
    <3> QED BY <2>4, <3>1, <3>2
  <2>11. OneClone'
    <3>1. Owns(c) => Names(c) \subseteq {None, q}
      BY <2>3 DEF Names
    <3>2. ASSUME NEW d \in Tokens, Owns(d)'
          PROVE  {runs'[d].op.id, runs'[d].known, runs'[d].moref, runs'[d].target} \subseteq {None, q}
      <4>1. CASE d = c
        BY <4>1, <3>1, <3>2, <2>w, <2>7, <2>8
      <4>2. CASE d # c
        BY <4>2, <3>2, <2>w, <2>3, <2>8
      <4> QED BY <4>1, <4>2
    <3>3. {job'.op.id, job'.target, vm'.moref} \subseteq {None, q}
      BY <2>3, <2>4, <2>5, IdleRow
    <3> QED BY <3>2, <3>3 DEF OneClone
  <2>12. OneOut' /\ OutTraceable'
    <3>1. ASSUME NEW p \in Ops, Out(p)', vm'.status # "deleted" PROVE p \in {job'.op.id, job'.target, vm'.moref}
      <4>1. p # o /\ p \in {job.op.id, job.target, vm.moref}
        BY <3>1, <2>2, <2>5, <2>9 DEF IInv, OutTraceable
      <4> QED BY <4>1, <2>2, <2>3, <2>4, <2>5
    <3>2. job'.op.id \in {None, job.op.id}
      BY <2>4, IdleRow
    <3> QED BY <3>1, <3>2, <2>9 DEF IInv, OneOut, OutTraceable
  <2>13. RunsHonest'
    <3>1. ASSUME NEW d \in Tokens PROVE RunHonest(runs[d])'
      <4>1. CASE d = c
        BY <4>1, <2>7, <2>6, <2>8, <2>m DEF RunHonest, Early
      <4>2. CASE d # c
        BY <4>2, <2>6, <2>8, <2>m DEF IInv, RunsHonest, RunHonest
      <4> QED BY <4>1, <4>2
    <3>2. ASSUME NEW d \in Tokens, Owns(d)' PROVE OwnerInformed(job, runs[d])'
      <4>1. CASE d = c
        BY <4>1, <2>7, <2>8 DEF OwnerInformed, Early
      <4>2. CASE d # c
        <5>1. OwnerInformed(job, runs[d]) /\ runs'[d] = runs[d]
          BY <3>2, <4>2, <2>w, <2>8 DEF IInv, RunsHonest
        <5>2. CASE job' = job
          BY <5>1, <5>2, <2>2, <2>5, <2>9 DEF OwnerInformed
        <5>3. CASE job.target = o /\ job'.op = NoOp /\ job'.target = None
          BY <5>1, <5>3, <2>2, <2>5, <2>9 DEF OwnerInformed, Early
        <5> QED BY <2>4, <5>2, <5>3
      <4> QED BY <4>1, <4>2
    <3> QED BY <3>1, <3>2 DEF RunsHonest
  <2>14. SubmitsOnce'
    BY <2>7, <2>8 DEF SubmitsOnce, IInv, At
  <2>15. RecordedIsGone'
    BY <2>2, <2>4, <2>6 DEF RecordedIsGone, IInv
  <2> QED BY <2>u, <2>10, <2>11, <2>12, <2>13, <2>14, <2>15 DEF IInv
<1> QED BY <1>1, <1>2 DEF CompleteCleanup

\* The job gets its terminal status.
LEMMA SettleKeeps ==
  ASSUME IInv, NEW c \in Tokens, Settle(c)
  PROVE  IInv'
<1>0. /\ runs[c].pc = "settle" /\ runs[c] \in RunRows /\ (Owns(c) => OwnerInformed(job, runs[c])) /\ job \in JobRows
  BY RunFacts DEF Settle, At
<1>i. \A j : Moves(c, j)
  <2>1. ASSUME NEW j PROVE RunMay(c, j, IdleRun)
    BY IdleRow DEF RunMay, RunHonest, OwnerInformed, Early, Made, Names
  <2> QED BY <2>1 DEF Moves, Settle, Set
<1>1. CASE UNCHANGED job
  <2>1. Moves(c, job)
    BY <1>i
  <2> QED BY <1>1, <2>1, RunStepKeeps DEF Settle
<1>2. CASE ~SettlementFails(c) /\ runs[c].out # "comp" /\ job' = [job EXCEPT !.status = TerminalStatus(runs[c].out)]
  <2>1. PICK j : j = [job EXCEPT !.status = TerminalStatus(runs[c].out)]
    OBVIOUS
  <2>2. TerminalStatus(runs[c].out) \in Ended
    BY <1>0, <1>2 DEF TerminalStatus, Ended, RunRows
  <2>3. /\ j \in JobRows /\ j.op = job.op /\ j.target = job.target /\ j.cleanup = job.cleanup
        /\ j.status # "active" /\ j.destroyed = job.destroyed
    BY <1>0, <2>1, <2>2 DEF JobRows, Ended
  <2>4. JobMay(c, j)
    BY <1>2, <2>3, JobStays DEF JobMay, SettlementFails
  <2> QED BY <1>2, <1>i, <2>1, <2>4, JobStepKeeps DEF Settle
<1>3. CASE /\ ~SettlementFails(c) /\ runs[c].out \in {"retry", "comp"}
           /\ job' = Rescheduled(job, runs[c].out = "comp", runs[c].target)
  <2>0. Owns(c)
    BY <1>3 DEF SettlementFails
  <2>1. PICK n : n = IF job.retries < MaxRetries THEN job.retries + 1 ELSE job.retries
    OBVIOUS
  <2>2. n \in 0 .. MaxRetries
    BY <1>0, <2>1 DEF JobRows
  <2>3. CASE runs[c].out = "retry"
    <3>1. PICK j : j = [[job EXCEPT !.status = "pending", !.owner = None, !.retries = n, !.cleanup = FALSE]
                        EXCEPT !.done = FALSE]
      OBVIOUS
    <3>2. job' = j
      BY <1>0, <1>3, <2>1, <2>3, <3>1 DEF Rescheduled, JobRows
    <3>3. /\ j \in JobRows /\ j.op = job.op /\ j.target = job.target
          /\ j.status # "active" /\ j.destroyed = job.destroyed
      BY <1>0, <2>2, <3>1 DEF JobRows
    <3>4. job.target = None
      BY <1>0, <2>0, <2>3 DEF OwnerInformed
    <3>5. JobMay(c, j)
      BY <2>0, <3>3, <3>4, JobStays DEF JobMay
    <3> QED BY <1>i, <3>2, <3>5, JobStepKeeps DEF Settle
  <2>4. CASE runs[c].out = "comp" /\ runs[c].target = None
    <3>1. PICK j : j = [job EXCEPT !.status = "pending", !.owner = None, !.retries = n, !.cleanup = TRUE]
      OBVIOUS
    <3>2. job' = j
      BY <1>0, <1>3, <2>1, <2>4, <3>1 DEF Rescheduled, JobRows
    <3>3. /\ j \in JobRows /\ j.op = job.op /\ j.target = job.target /\ j.cleanup
          /\ j.status # "active" /\ j.destroyed = job.destroyed
      BY <1>0, <2>2, <3>1 DEF JobRows
    <3>5. JobMay(c, j)
      BY <2>0, <3>3, JobStays DEF JobMay
    <3> QED BY <1>i, <3>2, <3>5, JobStepKeeps DEF Settle
  <2>5. CASE runs[c].out = "comp" /\ runs[c].target # None
    <3>0. PICK o : o = runs[c].target
      OBVIOUS
    <3>1. PICK j : j = [[job EXCEPT !.status = "pending", !.owner = None, !.retries = n, !.cleanup = TRUE]
                        EXCEPT !.target = o, !.done = FALSE]
      OBVIOUS
    <3>2. job' = j
      BY <1>0, <1>3, <2>1, <2>5, <3>0, <3>1 DEF Rescheduled, JobRows
    <3>3. /\ j \in JobRows /\ j.op = job.op /\ j.target = o /\ j.cleanup
          /\ j.status # "active" /\ j.destroyed = job.destroyed
      <4>1. o \in Ops \cup {None}
        BY <3>0, Known DEF Made
      <4> QED BY <1>0, <2>2, <3>1, <4>1 DEF JobRows
    <3>4. job.target \in {None, o}
      <4>1. PICK q \in Ops \cup {None} :
               /\ {job.op.id, job.target, vm.moref} \subseteq {None, q}
               /\ \A d \in Tokens : Owns(d) =>
                     {runs[d].op.id, runs[d].known, runs[d].moref, runs[d].target} \subseteq {None, q}
        BY DEF IInv, OneClone
      <4> QED BY <4>1, <2>0, <2>5, <3>0
    <3>5. o \in Made /\ o \in Names(c)
      BY <3>0, Known
    <3>6. JobMay(c, j)
      BY <2>0, <2>5, <3>0, <3>3, <3>4, <3>5, JobStays DEF JobMay
    <3> QED BY <1>i, <3>2, <3>6, JobStepKeeps DEF Settle
  <2> QED BY <1>3, <2>3, <2>4, <2>5
<1> QED BY <1>1, <1>2, <1>3 DEF Settle

\* A worker dies.
LEMMA CrashKeeps ==
  ASSUME IInv, NEW c \in Tokens, Crash(c)
  PROVE  IInv'
<1>1. RunMay(c, job, IdleRun)
  BY IdleRow DEF RunMay, RunHonest, OwnerInformed, Early, Made, Names
<1>2. Moves(c, job)
  BY <1>1 DEF Moves, Crash, Set
<1> QED BY <1>2, RunStepKeeps DEF Crash

\* A claim or a recovery: the payload stays, and the new owner knows nothing but what it is told.
LEMMA QueueKeeps ==
  ASSUME IInv, NEW j, j \in JobRows, job' = j, UNCHANGED <<vm, vc, del>>,
         j.op = job.op, j.target = job.target, j.cleanup = job.cleanup, j.destroyed = job.destroyed,
         runs' \in [Tokens -> RunRows],
         \A d \in Tokens : runs'[d] = runs[d] \/ (runs'[d].pc # "submit" /\ RunHonest(runs[d])'),
         \A d \in Tokens : Owns(d)' => /\ OwnerInformed(job, runs[d])'
                                       /\ {runs'[d].op.id, runs'[d].known, runs'[d].moref, runs'[d].target} = {None}
  PROVE  IInv'
<1>t. /\ job \in JobRows /\ vm \in VMRows /\ vc \in [Ops -> States]
      /\ runs \in [Tokens -> RunRows] /\ del \in DelRows
  BY TypeFlat DEF IInv
<1>u. TypeOK'
  BY <1>t, TypeFlatNext
<1>o. /\ \A p : Out(p)' => Out(p)
      /\ \A p : Unused(p) => Unused(p)'
  BY DEF Out, Live, At, Unused
<1>m. Made' = Made
  BY DEF Made
<1>1. RowsHonest'
  BY <1>o, <1>m DEF RowsHonest, IInv
<1>2. OneClone'
  <2>1. PICK q \in Ops \cup {None} : {job.op.id, job.target, vm.moref} \subseteq {None, q}
    BY DEF IInv, OneClone
  <2>2. {job'.op.id, job'.target, vm'.moref} \subseteq {None, q}
    BY <2>1
  <2>3. \A d \in Tokens : Owns(d)' =>
           {runs'[d].op.id, runs'[d].known, runs'[d].moref, runs'[d].target} \subseteq {None, q}
    OBVIOUS
  <2> QED BY <2>2, <2>3 DEF OneClone
<1>3. OneOut' /\ OutTraceable'
  BY <1>o DEF OneOut, OutTraceable, IInv
<1>5. RunsHonest'
  <2>1. ASSUME NEW d \in Tokens PROVE RunHonest(runs[d])'
    <3>1. CASE runs'[d] = runs[d]
      BY <3>1, <1>m DEF IInv, RunsHonest, RunHonest
    <3> QED BY <3>1
  <2> QED BY <2>1 DEF RunsHonest
<1>6. SubmitsOnce'
  BY DEF SubmitsOnce, IInv, At
<1>7. RecordedIsGone'
  BY DEF RecordedIsGone, IInv
<1> QED BY <1>u, <1>1, <1>2, <1>3, <1>5, <1>6, <1>7 DEF IInv

\* Recovery takes the job back.
LEMMA RecoverKeeps ==
  ASSUME IInv, Recover
  PROVE  IInv'
<1>t. job \in JobRows /\ runs \in [Tokens -> RunRows]
  BY TypeFlat DEF IInv
<1>1. PICK j : j = [job EXCEPT !.status = "pending", !.owner = None]
  OBVIOUS
<1>2. /\ j \in JobRows /\ j.op = job.op /\ j.target = job.target /\ j.cleanup = job.cleanup
      /\ j.destroyed = job.destroyed /\ j.status = "pending"
  BY <1>1, <1>t DEF JobRows
<1>3. job' = j /\ UNCHANGED <<vm, vc, runs, del>>
  BY <1>1 DEF Recover
<1>4. \A d \in Tokens : ~Owns(d)'
  BY <1>2, <1>3 DEF Owns
<1> QED BY <1>t, <1>2, <1>3, <1>4, QueueKeeps

\* A worker claims the job.
LEMMA ClaimKeeps ==
  ASSUME IInv, NEW c \in Tokens, Claim(c)
  PROVE  IInv'
<1>t. job \in JobRows /\ runs \in [Tokens -> RunRows]
  BY TypeFlat DEF IInv
<1>1. PICK j : j = [job EXCEPT !.status = "active", !.owner = c]
  OBVIOUS
<1>2. /\ j \in JobRows /\ j.op = job.op /\ j.target = job.target /\ j.cleanup = job.cleanup
      /\ j.destroyed = job.destroyed /\ j.owner = c
  BY <1>1, <1>t DEF JobRows
<1>3. job' = j /\ UNCHANGED <<vm, vc, del>>
  BY <1>1 DEF Claim
<1>4. PICK r : /\ r \in RunRows /\ r.pc \in {"load", "read"} /\ (r.pc = "read" => ~job.cleanup)
               /\ r.op = NoOp /\ r.known = None /\ r.moref = None /\ r.target = None
               /\ (r.hadOp <=> job.op # NoOp)
               /\ runs' = [runs EXCEPT ![c] = r]
  <2>1. PICK pc : pc = IF job.cleanup THEN "load" ELSE "read"
    OBVIOUS
  <2>2. PICK h \in BOOLEAN : h <=> job.op # NoOp
    <3>1. CASE job.op # NoOp
      BY <3>1
    <3>2. CASE job.op = NoOp
      BY <3>2
    <3> QED BY <3>1, <3>2
  <2>3. PICK b \in BOOLEAN : b <=> job.retries < MaxRetries
    <3>1. CASE job.retries < MaxRetries
      BY <3>1
    <3>2. CASE ~(job.retries < MaxRetries)
      BY <3>2
    <3> QED BY <3>1, <3>2
  <2>4. h = (job.op # NoOp) /\ b = (job.retries < MaxRetries)
    BY <2>2, <2>3
  <2>5. PICK r : r = [IdleRun EXCEPT !.pc = pc, !.hadOp = h, !.budget = b]
    OBVIOUS
  <2>6. runs' = [runs EXCEPT ![c] = r]
    BY <2>1, <2>4, <2>5 DEF Claim, Set
  <2>7. pc \in PCs /\ pc \in {"load", "read"} /\ (pc = "read" => ~job.cleanup)
    BY <2>1, <1>t DEF PCs, JobRows
  <2>8. /\ r \in RunRows /\ r.pc = pc /\ r.hadOp = h
        /\ r.op = NoOp /\ r.known = None /\ r.moref = None /\ r.target = None
    BY ZenonT(60), <2>2, <2>3, <2>5, <2>7, IdleRow DEF RunRows
  <2> QED BY <2>2, <2>6, <2>7, <2>8
<1>5. runs'[c] = r /\ \A d \in Tokens \ {c} : runs'[d] = runs[d]
  BY <1>t, <1>4
<1>6. \A d \in Tokens : Owns(d)' => d = c
  BY <1>2, <1>3 DEF Owns
<1>7. RunHonest(runs[c])'
  BY <1>4, <1>5 DEF RunHonest, Early, Made
<1>8. OwnerInformed(job, runs[c])'
  <2>1. r.pc = "read" => job.target = None
    BY <1>4 DEF IInv, RowsHonest
  <2> QED BY <2>1, <1>2, <1>3, <1>4, <1>5 DEF OwnerInformed, Early
<1>9. {runs'[c].op.id, runs'[c].known, runs'[c].moref, runs'[c].target} = {None}
  BY <1>4, <1>5, IdleRow
<1>10. runs' \in [Tokens -> RunRows] /\ runs'[c].pc # "submit"
  BY <1>t, <1>4, <1>5
<1> QED BY <1>2, <1>3, <1>5, <1>6, <1>7, <1>8, <1>9, <1>10, QueueKeeps

\* Steps of vm_destroy that write nothing but its own state.
LEMMA DelStepKeeps ==
  ASSUME IInv, UNCHANGED <<job, vm, vc, runs>>, del' \in DelRows, del'.moref \in Made,
         del'.pc = "destroy" => del'.moref # None, del'.pc = "clear" => vm.status = "deleted"
  PROVE  IInv'
<1>u. TypeOK'
  BY TypeFlat, TypeFlatNext DEF IInv
<1>1. Made' = Made /\ (\A p : Out(p)' <=> Out(p)) /\ (\A p : Unused(p)' <=> Unused(p))
  BY DEF Made, Out, Live, At, Unused
<1>2. \A d \in Tokens : RunHonest(runs[d])'
  BY <1>1 DEF IInv, RunsHonest, RunHonest
<1>3. \A d \in Tokens : Owns(d) =>
         /\ OwnerInformed(job, runs'[d])
         /\ {runs'[d].op.id, runs'[d].known, runs'[d].moref, runs'[d].target} \subseteq Names(d)
  BY DEF IInv, RunsHonest, Names
<1>4. SubmitsOnce'
  BY DEF IInv, SubmitsOnce, At
<1> QED BY <1>u, <1>1, <1>2, <1>3, <1>4, VCKeeps

\* Steps that leave the VM deleted.
LEMMA DeletedKeeps ==
  ASSUME IInv, UNCHANGED <<job, vc, runs>>, vm' \in VMRows, vm'.status = "deleted", vm'.moref \in {None, vm.moref},
         del' \in DelRows, del'.moref \in Made, del'.pc # "destroy"
  PROVE  IInv'
<1>u. TypeOK'
  BY TypeFlat, TypeFlatNext DEF IInv
<1>1. Made' = Made /\ (\A p : Out(p)' <=> Out(p)) /\ (\A p : Unused(p)' <=> Unused(p))
  BY DEF Made, Out, Live, At, Unused
<1>2. RowsHonest'
  BY <1>1 DEF IInv, RowsHonest, Made
<1>3. OneClone'
  <2>1. PICK q \in Ops \cup {None} :
           /\ {job.op.id, job.target, vm.moref} \subseteq {None, q}
           /\ \A d \in Tokens : Owns(d) =>
                 {runs[d].op.id, runs[d].known, runs[d].moref, runs[d].target} \subseteq {None, q}
    BY DEF IInv, OneClone
  <2>2. {job'.op.id, job'.target, vm'.moref} \subseteq {None, q}
    BY <2>1
  <2>3. \A d \in Tokens : Owns(d)' =>
           {runs'[d].op.id, runs'[d].known, runs'[d].moref, runs'[d].target} \subseteq {None, q}
    BY <2>1 DEF Owns
  <2> QED BY <2>2, <2>3 DEF OneClone
<1>4. OneOut' /\ OutTraceable'
  BY <1>1 DEF IInv, OneOut, OutTraceable
<1>5. RunsHonest'
  <2>1. \A d \in Tokens : RunHonest(runs[d])'
    BY <1>1 DEF IInv, RunsHonest, RunHonest
  <2>2. ASSUME NEW d \in Tokens, Owns(d)' PROVE OwnerInformed(job, runs[d])'
    <3>1. OwnerInformed(job, runs[d])
      BY <2>2 DEF IInv, RunsHonest, Owns
    <3> QED BY <3>1, <1>1 DEF OwnerInformed
  <2> QED BY <2>1, <2>2 DEF RunsHonest
<1>6. SubmitsOnce' /\ RecordedIsGone'
  BY DEF IInv, SubmitsOnce, At, RecordedIsGone
<1> QED BY <1>u, <1>2, <1>3, <1>4, <1>5, <1>6 DEF IInv

\* The delete job destroys the VM of the row.
LEMMA DestroyDeletedKeeps ==
  ASSUME IInv, DestroyDeleted
  PROVE  IInv'
<1>t. /\ job \in JobRows /\ vm \in VMRows /\ vc \in [Ops -> States]
      /\ runs \in [Tokens -> RunRows] /\ del \in DelRows
  BY TypeFlat DEF IInv
<1>1. PICK o : o = del.moref
  OBVIOUS
<1>2. o \in Ops /\ vc[o] \in {"exists", "gone"} /\ UNCHANGED <<job, vm, runs>>
  BY <1>1 DEF DestroyDeleted, IInv, RowsHonest, Made
<1>3. vc' \in [Ops -> States] /\ vc'[o] = "gone" /\ \A p \in Ops \ {o} : vc'[p] = vc[p]
  BY <1>t, <1>1, <1>2 DEF States, DestroyDeleted
<1>4. Made' = Made /\ \A p \in Ops : vc[p] = "gone" => vc'[p] = "gone"
  BY <1>2, <1>3 DEF Made
<1>5. del' \in DelRows /\ del'.pc = "mark" /\ del'.moref = del.moref
  BY <1>t DEF DestroyDeleted, DelRows
<1>u. TypeOK'
  BY <1>t, <1>2, <1>3, <1>5, TypeFlatNext
<1>6. ASSUME NEW p \in Ops PROVE (Out(p)' => Out(p)) /\ (Unused(p) => Unused(p)')
  BY <1>2, <1>3 DEF Out, Live, At, Unused
<1>7. ASSUME NEW d \in Tokens PROVE RunHonest(runs[d])'
  <2>1. runs[d] \in RunRows /\ runs[d].op \in OpRows /\ runs[d].moref \in Ops \cup {None} /\ RunHonest(runs[d])
    BY <1>t DEF RunRows, IInv, RunsHonest
  <2>2. runs[d].pc = "complete" => vc'[runs[d].moref] = "gone"
    BY <2>1, <1>2, <1>3 DEF RunHonest
  <2>3. runs[d].pc = "submit" => vc'[runs[d].op.id] = "none"
    BY <2>1, <1>2, <1>3 DEF RunHonest, OpRows
  <2> QED BY <2>1, <2>2, <2>3, <1>2, <1>4 DEF RunHonest
<1>8. \A d \in Tokens : Owns(d) =>
         /\ OwnerInformed(job, runs'[d])
         /\ {runs'[d].op.id, runs'[d].known, runs'[d].moref, runs'[d].target} \subseteq Names(d)
  BY <1>2 DEF IInv, RunsHonest, Names
<1>9. SubmitsOnce'
  BY <1>2 DEF IInv, SubmitsOnce, At
<1>10. del'.moref \in Made
  BY <1>5 DEF IInv, RowsHonest
<1> QED BY <1>u, <1>2, <1>4, <1>5, <1>6, <1>7, <1>8, <1>9, <1>10, VCKeeps

\* The steps of the VM's deletion.
LEMMA DeleteKeeps ==
  ASSUME IInv, Delete
  PROVE  IInv'
<1>t. vm \in VMRows /\ del \in DelRows /\ del.moref \in Made /\ vm.moref \in Made
      /\ (del.pc = "destroy" => del.moref # None) /\ (del.pc = "clear" => vm.status = "deleted")
  BY TypeFlat DEF IInv, RowsHonest
<1>n. NoDelete \in DelRows /\ NoDelete.moref = None /\ NoDelete.pc = "idle" /\ None \in Made
  BY DEF NoDelete, DelRows, Made
<1>1. CASE DeleteVM
  <2>1. del' \in DelRows /\ del'.moref = del.moref /\ del'.pc = del.pc
    BY <1>1, <1>t DEF DeleteVM, DelRows
  <2> QED BY <1>1, <1>t, <2>1, DelStepKeeps DEF DeleteVM
<1>2. CASE ReadDeleted
  <2>1. PICK a \in BOOLEAN : a <=> vm.status = "deleted"
    <3>1. CASE vm.status = "deleted"
      BY <3>1
    <3>2. CASE vm.status # "deleted"
      BY <3>2
    <3> QED BY <3>1, <3>2
  <2>2. PICK pc : pc = IF a THEN "clear" ELSE IF vm.moref # None THEN "destroy" ELSE "mark"
    OBVIOUS
  <2>3. a = (vm.status = "deleted")
    BY <2>1
  <2>4. del' = [del EXCEPT !.moref = vm.moref, !.already = a, !.pc = pc]
    BY <1>2, <2>2, <2>3 DEF ReadDeleted
  <2>5. pc \in {"clear", "destroy", "mark"} /\ (pc = "clear" => vm.status = "deleted") /\ (pc = "destroy" => vm.moref # None)
    BY <2>1, <2>2
  <2>6. del' \in DelRows /\ del'.moref = vm.moref /\ del'.pc = pc
    BY <1>t, <2>1, <2>4, <2>5 DEF DelRows, VMRows
  <2> QED BY <1>2, <1>t, <2>5, <2>6, DelStepKeeps DEF ReadDeleted
<1>3. CASE DestroyDeleted
  BY <1>3, DestroyDeletedKeeps
<1>4. CASE MarkDeleted
  <2>1. vm' \in VMRows /\ vm'.status = "deleted" /\ vm'.moref = vm.moref
    BY <1>4, <1>t DEF MarkDeleted, VMRows
  <2>2. del' \in DelRows /\ del'.moref = del.moref /\ del'.pc = "clear"
    BY <1>4, <1>t DEF MarkDeleted, DelRows
  <2> QED BY <1>4, <1>t, <2>1, <2>2, DeletedKeeps DEF MarkDeleted
<1>5. CASE ClearReference
  <2>1. vm' \in VMRows /\ vm'.status = "deleted" /\ vm'.moref \in {None, vm.moref}
    BY <1>5, <1>t DEF ClearReference, VMRows
  <2>2. del' \in DelRows /\ del'.moref = None /\ del'.pc = "idle"
    BY <1>5, <1>n DEF ClearReference, DelRows
  <2> QED BY <1>5, <1>n, <2>1, <2>2, DeletedKeeps DEF ClearReference
<1>6. CASE DeleteStops
  <2>1. del' \in DelRows /\ del'.moref = None /\ del'.pc = "idle"
    BY <1>6, <1>n DEF DeleteStops, DelRows
  <2> QED BY <1>6, <1>n, <2>1, DelStepKeeps DEF DeleteStops
<1> QED BY <1>1, <1>2, <1>3, <1>4, <1>5, <1>6 DEF Delete

\* The initial states satisfy the invariant.
LEMMA InitHolds == Init => IInv
<1> SUFFICES ASSUME Init PROVE IInv
  OBVIOUS
<1>1. /\ job \in JobRows /\ job.op = NoOp /\ job.target = None /\ job.destroyed = {} /\ job.status = "pending"
      /\ ~job.cleanup
  BY IdleRow DEF Init, JobRows
<1>2. vm \in VMRows /\ vm.moref = None /\ vm.status = "pending"
  BY DEF Init, VMRows, Building
<1>3. vc \in [Ops -> States] /\ \A o \in Ops : vc[o] = "none"
  BY DEF Init, States
<1>4. runs \in [Tokens -> RunRows] /\ \A c \in Tokens : runs[c] = IdleRun
  BY IdleRow DEF Init
<1>5. del \in DelRows /\ del.moref = None /\ del.pc = "idle"
  BY DEF Init, NoDelete, DelRows
<1>6. TypeOK
  BY <1>1, <1>2, <1>3, <1>4, <1>5, TypeFlat
<1>7. \A o \in Ops : ~Out(o)
  BY <1>3, <1>4, IdleRow DEF Out, Live, At
<1>8. \A c \in Tokens : ~Owns(c)
  BY <1>1 DEF Owns
<1>9. RowsHonest
  BY <1>1, <1>2, <1>5, IdleRow DEF RowsHonest, Made
<1>10. OneClone
  BY <1>1, <1>2, <1>8, IdleRow DEF OneClone
<1>11. OneOut /\ OutTraceable
  BY <1>7 DEF OneOut, OutTraceable
<1>12. RunsHonest
  BY <1>4, <1>8, IdleRow DEF RunsHonest, RunHonest, Made, Early
<1>13. SubmitsOnce /\ RecordedIsGone
  BY <1>1, <1>4, IdleRow DEF SubmitsOnce, At, RecordedIsGone
<1> QED BY <1>6, <1>9, <1>10, <1>11, <1>12, <1>13 DEF IInv

\* Every step keeps the invariant.
LEMMA NextKeeps ==
  ASSUME IInv, [Next]_vars
  PROVE  IInv'
<1>1. CASE UNCHANGED vars
  <2>1. UNCHANGED <<job, vm, vc, runs, del>>
    BY <1>1 DEF vars
  <2>2. del \in DelRows /\ del.moref \in Made
        /\ (del.pc = "destroy" => del.moref # None) /\ (del.pc = "clear" => vm.status = "deleted")
    BY TypeFlat DEF IInv, RowsHonest
  <2> QED BY <2>1, <2>2, DelStepKeeps
<1>2. ASSUME NEW c \in Tokens, Execute(c) PROVE IInv'
  <2>1. CASE ReadVM(c) \/ GuardProvisioning(c) \/ GuardFails(c) \/ Plan(c) \/ Prepare(c)
             \/ StartClone(c) \/ AbandonClone(c) \/ SubmitClone(c) \/ PersistTask(c) \/ WaitTask(c)
    BY <2>1, ReadVMKeeps, GuardKeeps, PlanKeeps, PrepareKeeps, StartKeeps, AbandonKeeps,
        SubmitKeeps,
       PersistKeeps, WaitKeeps
  <2>2. CASE StageClone(c) \/ ConfigureClone(c) \/ AdoptClone(c) \/ DisarmCleanup(c)
             \/ PowerOn(c) \/ MarkRunning(c) \/ Settle(c)
    BY <2>2, StageKeeps, ConfigureKeeps, AdoptKeeps, DisarmKeeps, PowerKeeps, MarkKeeps, SettleKeeps
  <2>3. CASE StageFailed(c) \/ LoadCleanup(c) \/ Reconcile(c) \/ StageReconciled(c) \/ ReloadCleanup(c)
             \/ DestroyExact(c) \/ CompleteCleanup(c) \/ Finalize(c) \/ RecordCompensation(c)
    BY <2>3, StageFailedKeeps, LoadKeeps, ReconcileKeeps, StageReconciledKeeps, ReloadKeeps,
        DestroyKeeps,
       CompleteKeeps, FinalizeKeeps, RecordKeeps
  <2> QED BY <1>2, <2>1, <2>2, <2>3 DEF Execute
<1>3. CASE Next
  BY <1>3, <1>2, ClaimKeeps, CrashKeeps, RecoverKeeps, FinishesKeeps, DeleteKeeps DEF Next
<1> QED BY <1>1, <1>3

-----------------------------------------------------------------------------
\* IInv is an invariant of the durable clone, for every set of operations and tokens and
\* every retry limit.
THEOREM CloneInvariant == Spec => []IInv
<1>1. IInv /\ [Next]_vars => IInv'
  BY NextKeeps
<1> QED BY <1>1, InitHolds, PTL DEF Spec

\* One vm_add job never has two clones in vCenter: an operation is prepared only when the job,
\* the VM row and vCenter have none, and armed once.
THEOREM OneCloneOfAJob == Spec => []NoDuplicateClone
<1>1. IInv => NoDuplicateClone
  BY DEF IInv, OneOut, Out, NoDuplicateClone
<1> QED BY <1>1, CloneInvariant, PTL

\* A clone that exists or may come to exist is named by the operation, the staged target or
\* the VM row, until the VM is deleted.
THEOREM CloneIsTraceable == Spec => []CloneTraceable
<1>1. IInv => CloneTraceable
  BY DEF IInv, OutTraceable, Out, CloneTraceable
<1> QED BY <1>1, CloneInvariant, PTL

\* The destructions in the payload are true, whoever recorded them.
THEOREM RecordedDestructionIsTrue == Spec => []RecordedIsGone
<1>1. IInv => RecordedIsGone
  BY DEF IInv
<1> QED BY <1>1, CloneInvariant, PTL

\* No step takes a VM out of deleted, an execution that lost its claim included.
THEOREM DeletedIsFinal == Spec => DeletedStaysDeleted
<1>1. ASSUME IInv, [Next]_vars, vm.status = "deleted"
      PROVE  vm'.status = "deleted"
  <2>t. vm \in VMRows
    BY <1>1, TypeFlat DEF IInv
  <2>1. ASSUME NEW c \in Tokens, Execute(c)
        PROVE  vm' = vm \/ (\E o : vm' = Detached(vm, o))
    <3>1. CASE GuardProvisioning(c) \/ MarkRunning(c) \/ Finalize(c)
      BY <1>1, <3>1 DEF GuardProvisioning, MarkRunning, Finalize, StatusFrom, Building
    <3>2. CASE AdoptClone(c)
      BY <1>1, <3>2 DEF AdoptClone
    <3>3. CASE CompleteCleanup(c)
      BY <3>3 DEF CompleteCleanup
    <3>4. CASE ReadVM(c) \/ GuardFails(c) \/ Plan(c) \/ Prepare(c)
             \/ StartClone(c) \/ AbandonClone(c) \/ SubmitClone(c) \/ PersistTask(c) \/ WaitTask(c)
      BY <3>4
      DEF ReadVM, GuardFails, Plan, Prepare, StartClone, AbandonClone, SubmitClone, PersistTask,
          WaitTask
    <3>5. CASE StageClone(c) \/ ConfigureClone(c) \/ DisarmCleanup(c) \/ PowerOn(c) \/ Settle(c)
               \/ StageFailed(c) \/ LoadCleanup(c) \/ Reconcile(c) \/ StageReconciled(c) \/ ReloadCleanup(c)
               \/ DestroyExact(c) \/ RecordCompensation(c)
      BY <3>5
      DEF StageClone, ConfigureClone, DisarmCleanup, PowerOn, Settle, StageFailed, LoadCleanup,
          Reconcile,
                  StageReconciled, ReloadCleanup, DestroyExact, RecordCompensation
    <3> QED BY <2>1, <3>1, <3>2, <3>3, <3>4, <3>5 DEF Execute
  <2>2. ASSUME NEW o, vm' = Detached(vm, o) PROVE vm'.status = "deleted"
    BY <1>1, <2>t, <2>2 DEF Detached, Building, VMRows
  <2>3. CASE Delete
    <3>1. CASE MarkDeleted \/ ClearReference
      BY <1>1, <2>t, <3>1 DEF MarkDeleted, ClearReference, VMRows
    <3>2. CASE UNCHANGED vm
      BY <1>1, <3>2
    <3> QED BY <2>3, <3>1, <3>2 DEF Delete, DeleteVM, ReadDeleted, DestroyDeleted, DeleteStops
  <2>4. CASE Recover \/ (\E o \in Ops : CloneFinishes(o)) \/ (\E c \in Tokens : Claim(c) \/ Crash(c)) \/ UNCHANGED vars
    BY <1>1, <2>4 DEF Recover, CloneFinishes, Claim, Crash, vars
  <2> QED BY <1>1, <2>1, <2>2, <2>3, <2>4 DEF Next
<1>2. IInv /\ [Next]_vars => [vm.status = "deleted" => vm'.status = "deleted"]_vars
  BY <1>1
<1> QED BY <1>2, CloneInvariant, PTL DEF Spec, DeletedStaysDeleted

-----------------------------------------------------------------------------
(* The vm_add job implements the queue *)

\* A step moves no execution but c.
MovesOnly(c) == \A d \in Tokens : d # c => runs'[d] = runs[d]

\* The abstract state of the next state, and what is not written.
LEMMA AbstractNext ==
  /\ JobStates' = [j \in {"vm_add"} |-> StateOf(job')]
  /\ JobHolders' = [j \in {"vm_add"} |-> HolderOf(job')]
  /\ RunsAtWork' = [c \in Tokens |-> WorkOf(runs'[c])]
  /\ \A c \in Tokens : RunsAtWork[c] = WorkOf(runs[c])
  /\ JobStates["vm_add"] = StateOf(job) /\ JobHolders["vm_add"] = HolderOf(job)
  /\ RunsAtWork = [c \in Tokens |-> RunsAtWork[c]]
  BY DEF JobStates, JobHolders, RunsAtWork, StateOf, HolderOf, WorkOf

\* A write of the row.
LEMMA AbstractWrite ==
  ASSUME NEW s, NEW h, StateOf(job') = s, HolderOf(job') = h
  PROVE  Abstract!Put("vm_add", s, h)
<1>1. JobStates' = [JobStates EXCEPT !["vm_add"] = s] /\ JobHolders' = [JobHolders EXCEPT !["vm_add"] = h]
  BY AbstractNext DEF JobStates, JobHolders
<1> QED BY <1>1 DEF Abstract!Put

\* A write of the row that leaves its status and its owner is not seen.
LEMMA AbstractSame ==
  ASSUME job'.status = job.status, job'.owner = job.owner
  PROVE  JobStates' = JobStates /\ JobHolders' = JobHolders
<1>1. StateOf(job') = StateOf(job) /\ HolderOf(job') = HolderOf(job)
  BY DEF StateOf, HolderOf
<1> QED BY <1>1, AbstractNext DEF JobStates, JobHolders

\* An execution goes on with its one job, or stops.
LEMMA AbstractMoves ==
  ASSUME NEW c \in Tokens, runs[c].pc # "idle", MovesOnly(c)
  PROVE  /\ RunsAtWork[c] = "vm_add"
         /\ runs'[c].pc # "idle" => RunsAtWork' = RunsAtWork
         /\ runs'[c].pc = "idle" => Abstract!Stops(c)
<1>1. RunsAtWork[c] = "vm_add" /\ \A d \in Tokens : d # c => WorkOf(runs'[d]) = RunsAtWork[d]
  BY AbstractNext DEF MovesOnly, WorkOf
<1>2. CASE runs'[c].pc # "idle"
  <2>1. \A d \in Tokens : WorkOf(runs'[d]) = RunsAtWork[d]
    BY <1>1, <1>2 DEF WorkOf
  <2> QED BY <1>1, <1>2, <2>1, AbstractNext
<1>3. CASE runs'[c].pc = "idle"
  <2>1. \A d \in Tokens : WorkOf(runs'[d]) = IF d = c THEN None ELSE RunsAtWork[d]
    BY <1>1, <1>3 DEF WorkOf
  <2> QED BY <1>1, <1>3, <2>1, AbstractNext DEF Abstract!Stops
<1> QED BY <1>2, <1>3, <1>1

\* A step of an execution that leaves the row's status and owner.
LEMMA AbstractQuiet ==
  ASSUME NEW c \in Tokens, runs[c].pc # "idle", MovesOnly(c), job'.status = job.status, job'.owner = job.owner
  PROVE  [Abstract!Next]_(Abstract!vars)
<1>1. JobStates' = JobStates /\ JobHolders' = JobHolders
  BY AbstractSame
<1>2. CASE runs'[c].pc # "idle"
  BY <1>1, <1>2, AbstractMoves DEF Abstract!vars
<1>3. CASE runs'[c].pc = "idle"
  <2>1. Abstract!Stop(c)
    BY <1>1, <1>3, AbstractMoves DEF Abstract!Stop
  <2> QED BY <2>1 DEF Abstract!Next
<1> QED BY <1>2, <1>3

\* The helpers that move an execution move no other.
LEMMA HelpersMoveOnly ==
  ASSUME TypeOK, NEW c \in Tokens
  PROVE  /\ \A run : Set(c, run) => MovesOnly(c)
         /\ \A pc : Goto(c, pc) => MovesOnly(c)
         /\ \A out, target : Returns(c, out, target) => MovesOnly(c)
         /\ \A moref, cause : FailWithCleanup(c, moref, cause) => MovesOnly(c)
         /\ WithoutClone(c) => MovesOnly(c)
         /\ FailsBeforeClone(c) => MovesOnly(c)
         /\ FailsAfterClone(c) => MovesOnly(c)
         /\ NotProvisionable(c) => MovesOnly(c)
         /\ AfterCleanup(c) => MovesOnly(c)
         /\ \A run : CleanUp(c, run) => MovesOnly(c)
<1>1. ASSUME NEW run, Set(c, run) PROVE MovesOnly(c)
  BY <1>1 DEF Set, MovesOnly, TypeOK
<1>2. ASSUME NEW pc, Goto(c, pc) PROVE MovesOnly(c)
  BY <1>1, <1>2 DEF Goto
<1>3. ASSUME NEW out, NEW target, Returns(c, out, target) PROVE MovesOnly(c)
  BY <1>1, <1>3 DEF Returns
<1>4. ASSUME NEW moref, NEW cause, FailWithCleanup(c, moref, cause) PROVE MovesOnly(c)
  BY <1>1, <1>4 DEF FailWithCleanup
<1>5. WithoutClone(c) => MovesOnly(c)
  BY <1>1 DEF WithoutClone
<1>6. FailsBeforeClone(c) \/ FailsAfterClone(c) => MovesOnly(c)
  BY <1>3, <1>4, <1>5 DEF FailsBeforeClone, FailsAfterClone
<1>7. NotProvisionable(c) => MovesOnly(c)
  BY <1>3, <1>4, <1>5 DEF NotProvisionable
<1>8. AfterCleanup(c) => MovesOnly(c)
  BY <1>3 DEF AfterCleanup
<1>9. ASSUME NEW run, CleanUp(c, run) PROVE MovesOnly(c)
  BY <1>1, <1>9 DEF CleanUp
<1> QED BY <1>1, <1>2, <1>3, <1>4, <1>5, <1>6, <1>7, <1>8, <1>9

\* The steps of the body that do not write the row,
LEMMA BodyMoves ==
  ASSUME TypeOK, NEW c \in Tokens,
         \/ ReadVM(c) \/ GuardProvisioning(c) \/ GuardFails(c) \/ Plan(c) \/ SubmitClone(c) \/ WaitTask(c)
         \/ ConfigureClone(c) \/ AdoptClone(c) \/ PowerOn(c) \/ MarkRunning(c) \/ LoadCleanup(c)
         \/ ReloadCleanup(c) \/ DestroyExact(c) \/ Finalize(c)
  PROVE  MovesOnly(c) /\ runs[c].pc # "idle" /\ job' = job
<1> USE HelpersMoveOnly DEF At
<1>1. CASE ReadVM(c) \/ GuardProvisioning(c) \/ GuardFails(c) \/ Plan(c)
  BY <1>1 DEF ReadVM, GuardProvisioning, GuardFails, Plan
<1>2. CASE SubmitClone(c) \/ WaitTask(c) \/ ConfigureClone(c) \/ AdoptClone(c)
  BY <1>2 DEF SubmitClone, WaitTask, ConfigureClone, AdoptClone
<1>3. CASE PowerOn(c) \/ MarkRunning(c) \/ LoadCleanup(c) \/ ReloadCleanup(c)
  BY <1>3 DEF PowerOn, MarkRunning, LoadCleanup, ReloadCleanup
<1>4. CASE DestroyExact(c) \/ Finalize(c)
  BY <1>4 DEF DestroyExact, Finalize
<1> QED BY <1>1, <1>2, <1>3, <1>4

\* and those that write of the row only its payload, with or without the claim.
LEMMA PayloadWrites ==
  ASSUME TypeOK, NEW c \in Tokens,
         \/ Prepare(c) \/ StartClone(c) \/ AbandonClone(c) \/ PersistTask(c) \/ StageClone(c)
         \/ DisarmCleanup(c) \/ StageFailed(c) \/ Reconcile(c) \/ StageReconciled(c)
         \/ CompleteCleanup(c) \/ RecordCompensation(c)
  PROVE  /\ MovesOnly(c) /\ runs[c].pc # "idle"
         /\ job'.status = job.status /\ job'.owner = job.owner
<1> DEFINE Same(row) == row.status = job.status /\ row.owner = job.owner
<1>1. /\ \A op : Same([job EXCEPT !.op = op])
      /\ Same(Armed(job)) /\ Same(Abandoned(job)) /\ Same(TaskPersisted(job)) /\ Same(Disarmed(job))
      /\ \A o : Same(Staged(job, o)) /\ Same(Destroyed(job, o))
      /\ Same(WithoutResource(job)) /\ Same([job EXCEPT !.done = TRUE]) /\ Same(job)
  BY
  DEF TypeOK, JobRows, Armed, Abandoned, TaskPersisted, Disarmed, Staged, Destroyed, WithoutResource
<1> HIDE DEF Same
<1>2. MovesOnly(c) /\ runs[c].pc # "idle"
  <2> USE HelpersMoveOnly DEF At
  <2>1. CASE Prepare(c) \/ StartClone(c) \/ AbandonClone(c) \/ PersistTask(c)
    BY <2>1 DEF Prepare, StartClone, AbandonClone, PersistTask
  <2>2. CASE StageClone(c) \/ DisarmCleanup(c) \/ StageFailed(c) \/ Reconcile(c)
    BY <2>2 DEF StageClone, DisarmCleanup, StageFailed, Reconcile
  <2>3. CASE StageReconciled(c) \/ CompleteCleanup(c) \/ RecordCompensation(c)
    BY <2>3 DEF StageReconciled, CompleteCleanup, RecordCompensation
  <2> QED BY <2>1, <2>2, <2>3
<1>3. Same(job')
  <2>1. CASE Prepare(c) \/ StartClone(c) \/ AbandonClone(c) \/ PersistTask(c)
    BY <1>1, <2>1 DEF Prepare, StartClone, AbandonClone, PersistTask
  <2>2. CASE StageClone(c) \/ DisarmCleanup(c) \/ StageFailed(c) \/ Reconcile(c)
    BY <1>1, <2>2 DEF StageClone, DisarmCleanup, StageFailed, Reconcile
  <2>3. CASE StageReconciled(c) \/ CompleteCleanup(c) \/ RecordCompensation(c)
    BY <1>1, <2>3 DEF StageReconciled, CompleteCleanup, RecordCompensation
  <2> QED BY <2>1, <2>2, <2>3
<1> QED BY <1>2, <1>3 DEF Same

\* The owner finishes its job or gives it back; nobody else does.
LEMMA AbstractSettle ==
  ASSUME TypeOK, NEW c \in Tokens, Settle(c)
  PROVE  [Abstract!Next]_(Abstract!vars)
<1>1. runs[c].pc # "idle" /\ MovesOnly(c) /\ runs'[c].pc = "idle"
  BY DEF Settle, At, Set, MovesOnly, TypeOK, IdleRun
<1>2. RunsAtWork[c] = "vm_add" /\ Abstract!Stops(c)
  BY <1>1, AbstractMoves
<1>3. ~SettlementFails(c) => Abstract!Holds(c)
  BY <1>2, AbstractNext DEF SettlementFails, Owns, HolderOf, Abstract!Holds
<1>4. CASE /\ ~SettlementFails(c)
           /\ job' = Rescheduled(job, runs[c].out = "comp", runs[c].target)
  <2>1. job'.status = "pending"
    BY <1>4 DEF Rescheduled, TypeOK, JobRows
  <2>2. Abstract!Put("vm_add", "waiting", None)
    BY <2>1, AbstractWrite DEF StateOf, HolderOf
  <2>3. Abstract!GiveBack(c)
    BY <1>2, <1>3, <1>4, <2>2 DEF Abstract!GiveBack
  <2> QED BY <2>3 DEF Abstract!Next
<1>5. CASE /\ ~SettlementFails(c) /\ runs[c].out # "comp"
           /\ job' = [job EXCEPT !.status = TerminalStatus(runs[c].out)]
  <2>1. runs[c] \in RunRows
    BY DEF TypeOK
  <2>2. TerminalStatus(runs[c].out) \in Ended
    BY <1>5, <2>1 DEF TerminalStatus, RunRows, Ended
  <2>3. job'.status \in Ended
    BY <1>5, <2>2 DEF TypeOK, JobRows
  <2>4. StateOf(job') \in {"completed", "failed"} /\ HolderOf(job') = None
    BY <2>3 DEF StateOf, HolderOf, Ended
  <2>5. Abstract!Put("vm_add", StateOf(job'), None)
    BY <2>4, AbstractWrite
  <2>6. Abstract!Finish(c, StateOf(job'))
    BY <1>2, <1>3, <1>5, <2>5 DEF Abstract!Finish
  <2> QED BY <2>4, <2>6 DEF Abstract!Next
<1>6. CASE job' = job
  BY <1>1, <1>6, AbstractQuiet
<1> QED BY <1>4, <1>5, <1>6 DEF Settle

\* A claim, and the recovery of the row.
LEMMA AbstractClaim ==
  ASSUME TypeOK, NEW c \in Tokens, Claim(c)
  PROVE  Abstract!Next
<1>1. job'.status = "active" /\ job'.owner = c
  BY DEF Claim, TypeOK, JobRows
<1>2. Abstract!Put("vm_add", "held", c)
  BY <1>1, AbstractWrite DEF StateOf, HolderOf
<1>3. JobStates["vm_add"] = "waiting" /\ \A j \in {"vm_add"} : JobHolders[j] # c
  BY AbstractNext, NoneApart DEF Claim, StateOf, HolderOf
<1>4. RunsAtWork[c] = None
  BY AbstractNext DEF Claim, At, WorkOf
<1>5. runs'[c].pc # "idle" /\ \A d \in Tokens : d # c => runs'[d] = runs[d]
  BY DEF Claim, Set, TypeOK, IdleRun
<1>6. \A d \in Tokens : WorkOf(runs'[d]) = IF d = c THEN "vm_add" ELSE RunsAtWork[d]
  BY <1>5, AbstractNext DEF WorkOf
<1>7. RunsAtWork' = [RunsAtWork EXCEPT ![c] = "vm_add"]
  BY <1>6, AbstractNext
<1>8. Abstract!Grant(c, "vm_add")
  BY <1>2, <1>3, <1>4, <1>7 DEF Abstract!Grant
<1> QED BY <1>8 DEF Abstract!Next

\* The sweep for expired leases takes the row from its execution and grants it
\* to nobody; the execution may go on.
LEMMA AbstractRecover ==
  ASSUME TypeOK, Recover
  PROVE  Abstract!Next
<1>1. job'.status = "pending" /\ runs' = runs
  BY DEF Recover, TypeOK, JobRows
<1>2. StateOf(job') = "waiting" /\ HolderOf(job') = None
  BY <1>1 DEF StateOf, HolderOf
<1>3. JobStates["vm_add"] = "held"
  BY AbstractNext DEF Recover, StateOf
<1>4. RunsAtWork' = RunsAtWork
  BY <1>1, AbstractNext
<1>5. Abstract!Revoke({"vm_add"})
  BY <1>2, <1>3, <1>4, AbstractNext DEF Abstract!Revoke
<1> QED BY <1>5 DEF Abstract!Next

\* The vm_add job implements the abstract queue that JobQueue implements, for any
\* number of executions: compensation hands the row over to the next claim, never
\* over the head of the present one.
THEOREM CloneQueueImplemented == Spec => ImplementsQueue
<1>1. Init => Abstract!Init
  BY DEF Init, IdleRun, JobStates, JobHolders, RunsAtWork, StateOf, HolderOf, WorkOf, Abstract!Init
<1>2. IInv /\ [Next]_vars => [Abstract!Next]_(Abstract!vars)
  <2> SUFFICES ASSUME IInv, [Next]_vars PROVE [Abstract!Next]_(Abstract!vars)
    OBVIOUS
  <2>1. TypeOK
    BY DEF IInv
  <2>2. CASE \E c \in Tokens : Claim(c)
    BY <2>1, <2>2, AbstractClaim
  <2>3. CASE Recover
    BY <2>1, <2>3, AbstractRecover
  <2>4. ASSUME NEW c \in Tokens, Crash(c) PROVE [Abstract!Next]_(Abstract!vars)
    BY <2>1, <2>4, HelpersMoveOnly, AbstractQuiet DEF Crash, At
  <2>5. ASSUME NEW c \in Tokens, Execute(c) PROVE [Abstract!Next]_(Abstract!vars)
    BY <2>1, <2>5, AbstractSettle, BodyMoves, PayloadWrites, AbstractQuiet DEF Execute
  <2>6. CASE UNCHANGED <<job, runs>>
    <3>1. JobStates' = JobStates /\ JobHolders' = JobHolders
      BY <2>6, AbstractSame
    <3>2. RunsAtWork' = RunsAtWork
      BY <2>6, AbstractNext
    <3> QED BY <3>1, <3>2 DEF Abstract!vars
  <2>7. (\E o \in Ops : CloneFinishes(o)) \/ Delete => UNCHANGED <<job, runs>>
    BY
    DEF CloneFinishes, Delete, DeleteVM, ReadDeleted, DestroyDeleted, MarkDeleted,
        ClearReference, DeleteStops
  <2> QED BY <2>2, <2>3, <2>4, <2>5, <2>6, <2>7 DEF Next, vars
<1> QED BY <1>1, <1>2, CloneInvariant, PTL DEF Spec, ImplementsQueue, Abstract!Spec
=============================================================================
