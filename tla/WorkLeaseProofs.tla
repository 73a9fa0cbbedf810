-------------------------- MODULE WorkLeaseProofs --------------------------
(***************************************************************************)
(* Proofs about WorkLease for every number of runs and all durations: the   *)
(* inductive invariant, the bound on overlapping runs, and that the row and *)
(* its runs implement the lease of module Lease.                            *)
(***************************************************************************)
EXTENDS WorkLease, TLAPS

USE NoneIsNoRun, DurationsOrdered, MaxGenerationIsNat

\* A run and the row as records.
RunType == [pc : PCs, maintain : {"sleep", "write", "done"},
            answer : {"none", "owned", "lost"}, cause : Causes,
            tick : Nat, sinceOK : Nat, generation : Nat,
            renewed : BOOLEAN, lost : Nat]

\* The state of a call that has not started is a well-typed run.
LEMMA IdleType == IdleRun \in RunType
  BY DEF IdleRun, RunType, PCs, Causes

\* Cancelling a context keeps a run well-typed.
LEMMA CancelledType ==
  ASSUME NEW run \in RunType, NEW c \in Causes \ {"none"}
  PROVE  /\ Cancelled(run, c) \in RunType
         /\ Cancelled(run, c).cause # "none"
  BY DEF Cancelled, RunType, Causes

\* A step that leaves the row alone and keeps the changed run's invariant keeps
\* the whole invariant: the other runs and their relation to the row are the same.
LEMMA RunWrites ==
  ASSUME IInv, NEW r \in Runs, NEW run \in RunType, Set(r, run), UNCHANGED row,
         RunLocal(r)', RunAndRow(r)'
  PROVE  IInv'
<1>1. runs' \in [Runs -> RunType]
  BY DEF IInv, TypeOK, RunType, Set
<1>2. ASSUME NEW q \in Runs, q # r PROVE RunLocal(q)' /\ RunAndRow(q)'
  <2>1. runs'[q] = runs[q]
    BY <1>2 DEF Set, IInv, TypeOK
  <2> QED BY <1>2, <2>1 DEF IInv, RunLocal, RunAndRow, Uncancelled
<1> QED BY <1>1, <1>2 DEF IInv, TypeOK, RunType

\* What a step that sets run r makes of it.
LEMMA SetReads ==
  ASSUME IInv, NEW r \in Runs, NEW run \in RunType, Set(r, run)
  PROVE  runs'[r] = run /\ runs[r] \in RunType
  BY DEF IInv, TypeOK, RunType, Set

\* The answer of a claim starts fn and its heartbeat.
LEMMA StartKeeps ==
  ASSUME IInv, NEW r \in Runs, Start(r)
  PROVE  IInv'
<1> DEFINE run == [runs[r] EXCEPT !.pc = "run", !.maintain = "sleep"]
<1>0. runs[r] \in RunType /\ RunLocal(r) /\ RunAndRow(r)
  BY DEF IInv, TypeOK, RunType
<1>1. run \in RunType
  BY <1>0 DEF RunType, PCs
<1>2. runs'[r] = run /\ row' = row
  BY <1>1, SetReads DEF Start
<1>3. RunLocal(r)'
  BY <1>0, <1>2 DEF RunType, RunLocal, Uncancelled, Start
<1>4. RunAndRow(r)'
  BY <1>0, <1>2 DEF RunType, RunLocal, RunAndRow, Uncancelled, Start
<1> QED BY <1>1, <1>3, <1>4, RunWrites DEF Start

\* The ticker fires.
LEMMA HeartbeatTickKeeps ==
  ASSUME IInv, NEW r \in Runs, HeartbeatTick(r)
  PROVE  IInv'
<1> DEFINE run == [runs[r] EXCEPT !.maintain = "write", !.tick = 0]
<1>0. runs[r] \in RunType /\ RunLocal(r) /\ RunAndRow(r)
  BY DEF IInv, TypeOK, RunType
<1>1. run \in RunType
  BY <1>0 DEF RunType
<1>2. runs'[r] = run /\ row' = row
  BY <1>1, SetReads DEF HeartbeatTick
<1>3. RunLocal(r)'
  BY <1>0, <1>2 DEF RunType, RunLocal, Uncancelled, HeartbeatTick, IdleRun
<1>4. RunAndRow(r)'
  BY <1>0, <1>2 DEF RunType, RunLocal, RunAndRow, Uncancelled, HeartbeatTick
<1> QED BY <1>1, <1>3, <1>4, RunWrites DEF HeartbeatTick

\* An acknowledged renewal moves lastOK; a refused one cancels the context.
LEMMA RenewAnsweredKeeps ==
  ASSUME IInv, NEW r \in Runs, RenewAnswered(r)
  PROVE  IInv'
<1>0. runs[r] \in RunType /\ RunLocal(r) /\ RunAndRow(r) /\ row.age \in Nat
  BY DEF IInv, TypeOK, RunType
<1>a. CASE runs[r].answer = "owned"
  <2> DEFINE run == [runs[r] EXCEPT !.maintain = "sleep", !.answer = "none",
                                    !.sinceOK = 0, !.lost = 0,
                                    !.renewed = runs[r].cause = "none"]
  <2>1. run \in RunType /\ Set(r, run)
    BY <1>0, <1>a DEF RunType, RenewAnswered
  <2>2. runs'[r] = run /\ row' = row
    BY <2>1, SetReads DEF RenewAnswered
  <2>3. RunLocal(r)'
    BY <1>0, <2>2 DEF RunType, RunLocal, Uncancelled, RenewAnswered, IdleRun
  <2>4. RunAndRow(r)'
    BY <1>0, <1>a, <2>2 DEF RunType, RunLocal, RunAndRow, Uncancelled, RenewAnswered
  <2> QED BY <2>1, <2>3, <2>4, RunWrites DEF RenewAnswered
<1>b. CASE runs[r].answer = "lost"
  <2> DEFINE run == [Cancelled(runs[r], "lost") EXCEPT !.maintain = "done", !.answer = "none"]
  <2>0. Cancelled(runs[r], "lost") \in RunType
    BY <1>0, CancelledType DEF Causes
  <2>1. run \in RunType /\ Set(r, run)
    BY <2>0, <1>b DEF RunType, RenewAnswered
  <2>2. runs'[r] = run /\ row' = row
    BY <2>1, SetReads DEF RenewAnswered
  <2>3. RunLocal(r)'
    BY <1>0, <2>2 DEF RunType, RunLocal, Uncancelled, RenewAnswered, IdleRun, Cancelled
  <2>4. RunAndRow(r)'
    BY <1>0, <1>b, <2>2 DEF RunType, RunLocal, RunAndRow, Uncancelled, RenewAnswered, Cancelled
  <2> QED BY <2>1, <2>3, <2>4, RunWrites DEF RenewAnswered
<1> QED BY <1>a, <1>b DEF RenewAnswered

\* The heartbeat goroutine sees its context cancelled.
LEMMA MaintainStopsKeeps ==
  ASSUME IInv, NEW r \in Runs, MaintainStops(r)
  PROVE  IInv'
<1> DEFINE run == [runs[r] EXCEPT !.maintain = "done"]
<1>0. runs[r] \in RunType /\ RunLocal(r) /\ RunAndRow(r)
  BY DEF IInv, TypeOK, RunType
<1>1. run \in RunType
  BY <1>0 DEF RunType, PCs
<1>2. runs'[r] = run /\ row' = row
  BY <1>1, SetReads DEF MaintainStops
<1>3. RunLocal(r)'
  BY <1>0, <1>2 DEF RunType, RunLocal, Uncancelled, MaintainStops, IdleRun
<1>4. RunAndRow(r)'
  BY <1>0, <1>2 DEF RunType, RunLocal, RunAndRow, Uncancelled, MaintainStops, IdleRun
<1> QED BY <1>1, <1>3, <1>4, RunWrites DEF MaintainStops

\* The worker's context is cancelled.
LEMMA ShutdownKeeps ==
  ASSUME IInv, NEW r \in Runs, Shutdown(r)
  PROVE  IInv'
<1> DEFINE run == Cancelled(runs[r], "canceled")
<1>0. runs[r] \in RunType /\ RunLocal(r) /\ RunAndRow(r)
  BY DEF IInv, TypeOK, RunType
<1>a. Cancelled(runs[r], "canceled") \in RunType
  BY <1>0, CancelledType DEF Causes
<1>1. run \in RunType
  BY <1>a DEF RunType, PCs
<1>2. runs'[r] = run /\ row' = row
  BY <1>1, SetReads DEF Shutdown
<1>3. RunLocal(r)'
  BY <1>0, <1>2 DEF RunType, RunLocal, Uncancelled, Shutdown, IdleRun, Cancelled
<1>4. RunAndRow(r)'
  BY <1>0, <1>2 DEF RunType, RunLocal, RunAndRow, Uncancelled, Shutdown, IdleRun, Cancelled
<1> QED BY <1>1, <1>3, <1>4, RunWrites DEF Shutdown

\* fn returns and RunExclusive cancels the lease context.
LEMMA FnReturnsKeeps ==
  ASSUME IInv, NEW r \in Runs, FnReturns(r)
  PROVE  IInv'
<1> DEFINE run == [Cancelled(runs[r], "finished") EXCEPT !.pc = "join"]
<1>0. runs[r] \in RunType /\ RunLocal(r) /\ RunAndRow(r)
  BY DEF IInv, TypeOK, RunType
<1>a. Cancelled(runs[r], "finished") \in RunType
  BY <1>0, CancelledType DEF Causes
<1>1. run \in RunType
  BY <1>a DEF RunType, PCs
<1>2. runs'[r] = run /\ row' = row
  BY <1>1, SetReads DEF FnReturns
<1>3. RunLocal(r)'
  BY <1>0, <1>2 DEF RunType, RunLocal, Uncancelled, FnReturns, IdleRun, Cancelled
<1>4. RunAndRow(r)'
  BY <1>0, <1>2 DEF RunType, RunLocal, RunAndRow, Uncancelled, FnReturns, IdleRun, Cancelled
<1> QED BY <1>1, <1>3, <1>4, RunWrites DEF FnReturns

\* The heartbeat goroutine has ended.
LEMMA JoinKeeps ==
  ASSUME IInv, NEW r \in Runs, Join(r)
  PROVE  IInv'
<1> DEFINE run == [runs[r] EXCEPT !.pc = "release"]
<1>0. runs[r] \in RunType /\ RunLocal(r) /\ RunAndRow(r)
  BY DEF IInv, TypeOK, RunType
<1>1. run \in RunType
  BY <1>0 DEF RunType, PCs
<1>2. runs'[r] = run /\ row' = row
  BY <1>1, SetReads DEF Join
<1>3. RunLocal(r)'
  BY <1>0, <1>2 DEF RunType, RunLocal, Uncancelled, Join, IdleRun
<1>4. RunAndRow(r)'
  BY <1>0, <1>2 DEF RunType, RunLocal, RunAndRow, Uncancelled, Join, IdleRun
<1> QED BY <1>1, <1>3, <1>4, RunWrites DEF Join

\* A dead process leaves the row as it is.
LEMMA CrashKeeps ==
  ASSUME IInv, NEW r \in Runs, Crash(r)
  PROVE  IInv'
<1> DEFINE run == IdleRun
<1>0. runs[r] \in RunType /\ RunLocal(r) /\ RunAndRow(r)
  BY DEF IInv, TypeOK, RunType
<1>1. run \in RunType
  BY IdleType
<1>2. runs'[r] = run /\ row' = row
  BY <1>1, SetReads DEF Crash
<1>3. RunLocal(r)'
  BY <1>0, <1>2 DEF RunType, RunLocal, Uncancelled, Crash, IdleRun
<1>4. RunAndRow(r)'
  BY <1>0, <1>2 DEF RunType, RunLocal, RunAndRow, Uncancelled, Crash, IdleRun
<1> QED BY <1>1, <1>3, <1>4, RunWrites DEF Crash

\* A failed renewal cancels the context once lastOK is Duration old.
LEMMA RenewFailedKeeps ==
  ASSUME IInv, NEW r \in Runs, RenewFailed(r)
  PROVE  IInv'
<1>0. runs[r] \in RunType /\ RunLocal(r) /\ RunAndRow(r)
  BY DEF IInv, TypeOK, RunType
<1>a. CASE runs[r].sinceOK >= Duration
  <2> DEFINE run == [Cancelled(runs[r], "expired") EXCEPT !.maintain = "done", !.answer = "none"]
  <2>0. Cancelled(runs[r], "expired") \in RunType
    BY <1>0, CancelledType DEF Causes
  <2>a. runs[r].sinceOK \in Nat
    BY <1>0 DEF RunType
  <2>b. run \in RunType
    BY <2>0 DEF RunType
  <2>c. Set(r, run)
    BY <2>a, <1>a DEF RenewFailed
  <2>1. run \in RunType /\ Set(r, run)
    BY <2>b, <2>c
  <2>2. runs'[r] = run /\ row' = row
    BY <2>1, SetReads DEF RenewFailed
  <2>3. RunLocal(r)'
    BY <1>0, <2>2 DEF RunType, RunLocal, Uncancelled, RenewFailed, IdleRun, Cancelled
  <2>4. RunAndRow(r)'
    BY <1>0, <2>2 DEF RunType, RunLocal, RunAndRow, Uncancelled, RenewFailed, Cancelled
  <2> QED BY <2>1, <2>3, <2>4, RunWrites DEF RenewFailed
<1>b. CASE runs[r].sinceOK < Duration
  <2> DEFINE run == [runs[r] EXCEPT !.maintain = "sleep", !.answer = "none"]
  <2>a. runs[r].sinceOK \in Nat
    BY <1>0 DEF RunType
  <2>b. run \in RunType
    BY <1>0 DEF RunType
  <2>c. Set(r, run)
    BY <2>a, <1>b DEF RenewFailed
  <2>1. run \in RunType /\ Set(r, run)
    BY <2>b, <2>c
  <2>2. runs'[r] = run /\ row' = row
    BY <2>1, SetReads DEF RenewFailed
  <2>3. RunLocal(r)'
    BY <1>0, <1>b, <2>2 DEF RunType, RunLocal, Uncancelled, RenewFailed, IdleRun
  <2>4. RunAndRow(r)'
    BY <1>0, <2>2 DEF RunType, RunLocal, RunAndRow, Uncancelled, RenewFailed
  <2> QED BY <2>1, <2>3, <2>4, RunWrites DEF RenewFailed
<1> QED BY <1>0, <1>a, <1>b DEF RunType

\* A claim takes a row that is free or older than Duration, so no renewal of the
\* previous holder is on its way back with a positive answer.
LEMMA TryClaimKeeps ==
  ASSUME IInv, NEW r \in Runs, TryClaimWorkLease(r)
  PROVE  IInv'
<1> DEFINE run == [IdleRun EXCEPT !.pc = "claimed", !.generation = row.generation + 1]
<1>0. /\ runs \in [Runs -> RunType]
      /\ row \in [token : Runs \cup {None}, age : 0 .. Duration + 1, generation : Nat]
  BY DEF IInv, TypeOK, RunType
<1>a. row.generation + 1 \in Nat
  BY <1>0
<1>1. run \in RunType
  BY <1>a, IdleType DEF RunType, PCs
<1>2. runs'[r] = run
  BY <1>1, SetReads DEF TryClaimWorkLease
<1>3. TypeOK' /\ row'.token # None
  BY <1>0, <1>1, <1>2 DEF TypeOK, RunType, TryClaimWorkLease, Set
<1>4. RunLocal(r)' /\ RunAndRow(r)'
  BY <1>0, <1>2 DEF RunLocal, RunAndRow, Uncancelled, TryClaimWorkLease, IdleRun
<1>5. ASSUME NEW q \in Runs, q # r PROVE RunLocal(q)' /\ RunAndRow(q)'
  <2>1. runs'[q] = runs[q] /\ runs[q] \in RunType
    BY <1>0, <1>5 DEF TryClaimWorkLease, Set
  <2>2. RunLocal(q) /\ RunAndRow(q)
    BY <1>5 DEF IInv
  <2>3. RunLocal(q)'
    BY <2>1, <2>2 DEF RunLocal, Uncancelled
  <2>4. runs[q].answer # "owned"
    BY <1>0, <2>1, <2>2 DEF RunLocal, RunAndRow, TryClaimWorkLease, Claimable, RunType
  <2>5. RunAndRow(q)'
    BY <1>0, <1>5, <2>1, <2>2, <2>4 DEF RunAndRow, Uncancelled, TryClaimWorkLease, Claimable, RunType
  <2> QED BY <2>3, <2>5
<1> QED BY <1>3, <1>4, <1>5 DEF IInv

\* A renewal makes the row young only for the run that holds it.
LEMMA RenewKeeps ==
  ASSUME IInv, NEW r \in Runs, RenewWorkLease(r)
  PROVE  IInv'
<1> DEFINE run == [runs[r] EXCEPT !.answer = IF row.token = r THEN "owned" ELSE "lost"]
<1>0. /\ runs \in [Runs -> RunType]
      /\ row \in [token : Runs \cup {None}, age : 0 .. Duration + 1, generation : Nat]
  BY DEF IInv, TypeOK, RunType
<1>1. run \in RunType
  BY <1>0 DEF RunType
<1>2. runs'[r] = run
  BY <1>1, SetReads DEF RenewWorkLease
<1>3. TypeOK' /\ (row'.token = None => row'.age = 0)
  BY <1>0, <1>1 DEF TypeOK, RunType, RenewWorkLease, Set, IInv
<1>a. row'.token = row.token /\ row'.generation = row.generation
      /\ row'.age = (IF row.token = r THEN 0 ELSE row.age)
  BY <1>0 DEF RenewWorkLease
<1>4. RunLocal(r)'
  BY <1>0, <1>2 DEF IInv, RunType, RunLocal, Uncancelled, RenewWorkLease, IdleRun
<1>5. RunAndRow(r)'
  BY <1>0, <1>2, <1>a DEF IInv, RunType, RunLocal, RunAndRow, Uncancelled, RenewWorkLease
<1>6. ASSUME NEW q \in Runs, q # r PROVE RunLocal(q)' /\ RunAndRow(q)'
  <2>1. runs'[q] = runs[q] /\ runs[q] \in RunType
    BY <1>0, <1>6 DEF RenewWorkLease, Set
  <2>2. RunLocal(q) /\ RunAndRow(q)
    BY <1>6 DEF IInv
  <2> QED BY <1>0, <1>6, <1>a, <2>1, <2>2 DEF RunLocal, RunAndRow, Uncancelled, RunType
<1> QED BY <1>3, <1>4, <1>5, <1>6 DEF IInv

\* A release ends the claim of its own run only.
LEMMA ReleaseKeeps ==
  ASSUME IInv, NEW r \in Runs, ReleaseWorkLease(r)
  PROVE  IInv'
<1>0. /\ runs \in [Runs -> RunType]
      /\ row \in [token : Runs \cup {None}, age : 0 .. Duration + 1, generation : Nat]
  BY DEF IInv, TypeOK, RunType
<1>1. runs'[r] = IdleRun
  BY IdleType, SetReads DEF ReleaseWorkLease
<1>2. /\ row'.token # row.token => row.token = r /\ row'.token = None /\ row'.age = 0
      /\ row'.token = row.token => row'.age = row.age
      /\ row'.generation = row.generation
  BY <1>0 DEF ReleaseWorkLease, Released
<1>3. TypeOK' /\ (row'.token = None => row'.age = 0)
  <2>1. runs' \in [Runs -> RunType]
    BY <1>0, IdleType DEF ReleaseWorkLease, Set
  <2>a. 0 \in 0 .. Duration + 1
    OBVIOUS
  <2>2. Released(r) \in [token : Runs \cup {None}, age : 0 .. Duration + 1, generation : Nat]
    BY <1>0, <2>a DEF Released
  <2>3. row' \in [token : Runs \cup {None}, age : 0 .. Duration + 1, generation : Nat]
    BY <1>0, <2>2 DEF ReleaseWorkLease
  <2>4. row'.token = None => row'.age = 0
    BY <1>2 DEF IInv
  <2> QED BY <2>1, <2>3, <2>4 DEF TypeOK, RunType
<1>4. RunLocal(r)' /\ RunAndRow(r)'
  BY <1>1 DEF RunLocal, RunAndRow, Uncancelled, IdleRun
<1>5. ASSUME NEW q \in Runs, q # r PROVE RunLocal(q)' /\ RunAndRow(q)'
  <2>1. runs'[q] = runs[q] /\ runs[q] \in RunType
    BY <1>0, <1>5 DEF ReleaseWorkLease, Set
  <2>2. RunLocal(q) /\ RunAndRow(q)
    BY <1>5 DEF IInv
  <2> QED BY <1>0, <1>2, <1>5, <2>1, <2>2 DEF RunLocal, RunAndRow, Uncancelled, RunType
<1> QED BY <1>3, <1>4, <1>5 DEF IInv

\* Time passes for the row and for all runs at once.
LEMMA ClockKeeps ==
  ASSUME IInv, Clock
  PROVE  IInv'
<1>0. /\ runs \in [Runs -> RunType]
      /\ row \in [token : Runs \cup {None}, age : 0 .. Duration + 1, generation : Nat]
  BY DEF IInv, TypeOK, RunType
<1>1. ASSUME NEW run \in RunType, NEW b \in BOOLEAN PROVE Older(run, b) \in RunType
  <2>a. run.tick + 1 \in Nat /\ run.sinceOK + 1 \in Nat /\ run.lost + 1 \in Nat
    BY <1>1 DEF RunType
  <2>b. [run EXCEPT !.tick = @ + 1] \in RunType
    BY <1>1, <2>a DEF RunType
  <2>1. CASE b = TRUE
    BY <1>1, <2>1, <2>a, <2>b DEF Older, RunType
  <2>2. CASE b = FALSE
    BY <1>1, <2>2, <2>a, <2>b DEF Older, RunType
  <2> QED BY <2>1, <2>2
<1>2. runs' \in [Runs -> RunType]
  BY <1>0, <1>1 DEF Clock
<1>3. TypeOK' /\ row'.token = row.token /\ row'.generation = row.generation
      /\ (row'.token = None => row'.age = 0) /\ row'.age <= row.age + 1 /\ row.age \in Nat /\ row'.age \in Nat
  BY <1>0, <1>2 DEF TypeOK, RunType, Clock, IInv
<1>4. ASSUME NEW r \in Runs PROVE RunLocal(r)' /\ RunAndRow(r)'
  <2>1. RunLocal(r) /\ RunAndRow(r) /\ runs[r] \in RunType
    BY <1>0, <1>4 DEF IInv
  <2>2. runs'[r] = Older(runs[r], row.token = r)
    BY <1>4 DEF Clock
  <2>a. CASE Uncancelled(r)
    <3>1. /\ runs'[r].pc = runs[r].pc /\ runs'[r].maintain = runs[r].maintain
          /\ runs'[r].answer = runs[r].answer /\ runs'[r].cause = runs[r].cause
          /\ runs'[r].generation = runs[r].generation /\ runs'[r].renewed = runs[r].renewed
          /\ runs'[r].tick = runs[r].tick + 1
          /\ runs'[r].sinceOK = runs[r].sinceOK + 1
          /\ runs'[r].lost = (IF row.token = r THEN 0 ELSE runs[r].lost + 1)
      BY <2>1, <2>2, <2>a DEF Older, Uncancelled, RunType
    <3>2. RunLocal(r)'
      BY <2>1, <2>a, <3>1, <1>4 DEF RunLocal, Uncancelled, RunType, Clock
    <3>3. RunAndRow(r)'
      BY <1>3, <2>1, <2>a, <3>1 DEF RunAndRow, RunLocal, Uncancelled, RunType
    <3> QED BY <3>2, <3>3
  <2>b. CASE ~Uncancelled(r)
    <3>1. /\ runs'[r].pc = runs[r].pc /\ runs'[r].maintain = runs[r].maintain
          /\ runs'[r].answer = runs[r].answer /\ runs'[r].cause = runs[r].cause
          /\ runs'[r].generation = runs[r].generation /\ runs'[r].renewed = runs[r].renewed
          /\ runs'[r].sinceOK = runs[r].sinceOK /\ runs'[r].lost = runs[r].lost
          /\ runs'[r].tick = (IF runs[r].maintain = "write" THEN runs[r].tick + 1 ELSE runs[r].tick)
          /\ runs[r].maintain # "write" => runs'[r] = runs[r]
      BY <2>1, <2>2, <2>b DEF Older, Uncancelled, RunType
    <3>2. RunLocal(r)'
      BY <2>1, <2>b, <3>1, <1>4 DEF RunLocal, Uncancelled, RunType, Clock, IdleRun
    <3>3. RunAndRow(r)'
      BY <1>3, <2>1, <2>b, <3>1 DEF RunAndRow, RunLocal, Uncancelled, RunType
    <3> QED BY <3>2, <3>3
  <2> QED BY <2>a, <2>b
<1> QED BY <1>3, <1>4 DEF IInv

\* The inductive invariant of RunExclusive and its row, for every number of runs
\* and all durations that DurationsOrdered allows.
THEOREM LeaseInductive == Spec => []IInv
<1>1. Init => IInv
  <2> SUFFICES ASSUME Init PROVE IInv
    OBVIOUS
  <2>1. row = [token |-> None, age |-> 0, generation |-> 0] /\ runs = [r \in Runs |-> IdleRun]
    BY DEF Init
  <2>2. 0 \in 0 .. Duration + 1
    OBVIOUS
  <2>3. TypeOK /\ row.token = None /\ row.age = 0
    BY <2>1, <2>2, IdleType DEF TypeOK, RunType
  <2>4. ASSUME NEW r \in Runs PROVE RunLocal(r) /\ RunAndRow(r)
    BY <2>1, <2>4 DEF RunLocal, RunAndRow, Uncancelled, IdleRun
  <2> QED BY <2>3, <2>4 DEF IInv
<1>2. IInv /\ [Next]_vars => IInv'
  <2> SUFFICES ASSUME IInv, [Next]_vars PROVE IInv'
    OBVIOUS
  <2>1. CASE UNCHANGED vars
    BY <2>1 DEF vars, IInv, TypeOK, RunLocal, RunAndRow, Uncancelled
  <2>2. CASE Clock
    BY <2>2, ClockKeeps
  <2>3. ASSUME NEW r \in Runs, RunStep(r) PROVE IInv'
    BY <2>3, TryClaimKeeps, StartKeeps, HeartbeatTickKeeps, RenewKeeps, RenewAnsweredKeeps,
       RenewFailedKeeps, MaintainStopsKeeps, ShutdownKeeps, FnReturnsKeeps, JoinKeeps,
       ReleaseKeeps, CrashKeeps DEF RunStep
  <2> QED BY <2>1, <2>2, <2>3 DEF Next
<1> QED BY <1>1, <1>2, PTL DEF Spec

\* Type correctness of the lease row and of RunExclusive.
THEOREM LeaseTypes == Spec => []TypeOK
<1>1. IInv => TypeOK
  BY DEF IInv
<1> QED BY <1>1, LeaseInductive, PTL

\* maintain stops a run that lost its row within the stated time, whatever the
\* durations are.
THEOREM LeaseOverlap == Spec => []OverlapBounded
<1>1. IInv => OverlapBounded
  <2> SUFFICES ASSUME IInv, NEW r \in Runs, Uncancelled(r)
               PROVE  runs[r].lost <= IF runs[r].renewed THEN HeartbeatInterval + 2 * WriteTimeout
                                      ELSE Duration + HeartbeatInterval + WriteTimeout
    BY DEF OverlapBounded
  <2>1. runs[r] \in RunType /\ RunLocal(r) /\ RunAndRow(r)
    BY DEF IInv, TypeOK, RunType
  <2>2. runs[r].sinceOK < Duration + HeartbeatInterval + WriteTimeout
    BY <2>1 DEF RunLocal, RunType, Uncancelled
  <2>3. CASE ~runs[r].renewed
    BY <2>1, <2>2, <2>3 DEF RunLocal, RunType
  <2>4. CASE runs[r].renewed
    BY <2>1, <2>2, <2>4 DEF RunAndRow, RunType
  <2> QED BY <2>3, <2>4
<1> QED BY <1>1, LeaseInductive, PTL

\* A positive answer of RenewWorkLease is still true when maintain acts on it.
THEOREM LeaseAcknowledged == Spec => []AcknowledgementIsCurrent
<1>1. IInv => AcknowledgementIsCurrent
  <2> SUFFICES ASSUME IInv, NEW r \in Runs, runs[r].maintain = "write", runs[r].answer = "owned"
               PROVE  row.token = r /\ row.generation = runs[r].generation
    BY DEF AcknowledgementIsCurrent
  <2>1. RunLocal(r) /\ RunAndRow(r)
    BY DEF IInv
  <2>2. runs[r].pc # "idle"
    BY <2>1 DEF RunLocal, IdleRun
  <2> QED BY <2>1, <2>2 DEF RunAndRow
<1> QED BY <1>1, LeaseInductive, PTL

-----------------------------------------------------------------------------
(* Refinement *)

\* The runs that act under a claim.
ActiveRuns == {r \in Runs : runs[r].pc # "idle"}

\* A run that becomes idle leaves the others active.
LEMMA Leaves ==
  ASSUME IInv, NEW r \in Runs, Set(r, IdleRun), runs[r].pc # "idle"
  PROVE  r \in ActiveRuns /\ ActiveRuns' = ActiveRuns \ {r}
<1>1. ASSUME NEW q \in Runs PROVE runs'[q].pc # "idle" <=> (runs[q].pc # "idle" /\ q # r)
  BY <1>1 DEF Set, IInv, TypeOK, IdleRun
<1> QED BY <1>1 DEF ActiveRuns

\* Between its claim and its end a run stays active.
LEMMA StaysActive ==
  ASSUME IInv, NEW r \in Runs, runs[r].pc # "idle",
         \/ Start(r) \/ HeartbeatTick(r) \/ RenewAnswered(r) \/ RenewFailed(r)
         \/ MaintainStops(r) \/ Shutdown(r) \/ FnReturns(r) \/ Join(r)
  PROVE  runs'[r].pc # "idle"
<1>0. runs[r] \in RunType /\ runs \in [Runs -> RunType]
  BY DEF IInv, TypeOK, RunType
<1>1. ASSUME NEW c \in Causes \ {"none"}
      PROVE  Cancelled(runs[r], c) \in RunType /\ Cancelled(runs[r], c).pc = runs[r].pc
  BY <1>0, <1>1, CancelledType DEF Cancelled, RunType
<1>2. ASSUME NEW run, Set(r, run) PROVE runs'[r] = run
  BY <1>0, <1>2 DEF Set
<1>a. CASE Start(r)
  BY <1>0, <1>2, <1>a DEF Start, RunType
<1>b. CASE HeartbeatTick(r)
  BY <1>0, <1>2, <1>b DEF HeartbeatTick, RunType
<1>c. CASE MaintainStops(r)
  BY <1>0, <1>2, <1>c DEF MaintainStops, RunType
<1>d. CASE Join(r)
  BY <1>0, <1>2, <1>d DEF Join, RunType
<1>e. CASE Shutdown(r)
  <2>1. Cancelled(runs[r], "canceled").pc = runs[r].pc
    BY <1>1 DEF Causes
  <2> QED BY <1>2, <1>e, <2>1 DEF Shutdown
<1>f. CASE FnReturns(r)
  <2>1. Cancelled(runs[r], "finished") \in RunType
    BY <1>1 DEF Causes
  <2>2. runs'[r] = [Cancelled(runs[r], "finished") EXCEPT !.pc = "join"]
    BY <1>2, <1>f DEF FnReturns
  <2> QED BY <2>1, <2>2 DEF RunType
<1>g. CASE RenewAnswered(r)
  <2>1. Cancelled(runs[r], "lost") \in RunType /\ Cancelled(runs[r], "lost").pc = runs[r].pc
    BY <1>1 DEF Causes
  <2>2. \/ runs'[r] = [runs[r] EXCEPT !.maintain = "sleep", !.answer = "none",
                                     !.sinceOK = 0, !.lost = 0,
                                     !.renewed = runs[r].cause = "none"]
        \/ runs'[r] = [Cancelled(runs[r], "lost") EXCEPT !.maintain = "done", !.answer = "none"]
    BY <1>2, <1>g DEF RenewAnswered
  <2> QED BY <1>0, <2>1, <2>2 DEF RunType
<1>h. CASE RenewFailed(r)
  <2>1. Cancelled(runs[r], "expired") \in RunType /\ Cancelled(runs[r], "expired").pc = runs[r].pc
    BY <1>1 DEF Causes
  <2>2. \/ runs'[r] = [Cancelled(runs[r], "expired") EXCEPT !.maintain = "done", !.answer = "none"]
        \/ runs'[r] = [runs[r] EXCEPT !.maintain = "sleep", !.answer = "none"]
    BY <1>2, <1>h DEF RenewFailed
  <2> QED BY <1>0, <2>1, <2>2 DEF RunType
<1> QED BY <1>a, <1>b, <1>c, <1>d, <1>e, <1>f, <1>g, <1>h

\* The row of worker_work_leases and the RunExclusive calls implement the lease
\* of module Lease.
THEOREM LeaseRefinement == Spec => ImplementsLease
<1>1. Init => Abstract!Init
  BY DEF Init, Abstract!Init, IdleRun
<1>2. IInv /\ [Next]_vars => [Abstract!Next]_(Abstract!vars)
  <2> SUFFICES ASSUME IInv, [Next]_vars PROVE [Abstract!Next]_(Abstract!vars)
    OBVIOUS
  <2>0. /\ runs \in [Runs -> RunType]
        /\ row \in [token : Runs \cup {None}, age : 0 .. Duration + 1, generation : Nat]
    BY DEF IInv, TypeOK, RunType
  <2>1. CASE UNCHANGED vars
    BY <2>1 DEF vars, Abstract!vars
  <2>2. CASE Clock
    <3>1. ASSUME NEW r \in Runs PROVE runs'[r].pc = runs[r].pc
      BY <2>0, <2>2, <3>1 DEF Clock, Older, RunType
    <3>2. ActiveRuns' = ActiveRuns
      BY <3>1 DEF ActiveRuns
    <3>3. row'.token = row.token /\ row'.generation = row.generation
      BY <2>0, <2>2 DEF Clock
    <3>4. CASE (row'.age > Duration) = (row.age > Duration)
      BY <3>2, <3>3, <3>4 DEF Abstract!vars, ActiveRuns
    <3>5. CASE (row'.age > Duration) # (row.age > Duration)
      <4>1. row.token # None /\ (row'.age > Duration) = TRUE
        BY <2>0, <2>2, <3>5 DEF Clock
      <4>2. Abstract!Lapse
        BY <4>1, <3>2, <3>3 DEF Abstract!Lapse, ActiveRuns
      <4> QED BY <4>2 DEF Abstract!Next
    <3> QED BY <3>4, <3>5
  <2>3. ASSUME NEW r \in Runs, RunStep(r) PROVE [Abstract!Next]_(Abstract!vars)
    <3>0. runs[r] \in RunType /\ RunLocal(r) /\ RunAndRow(r)
      BY <2>0, <2>3 DEF IInv
    <3>1. CASE TryClaimWorkLease(r)
      <4>1. ASSUME NEW q \in Runs PROVE runs'[q].pc # "idle" <=> (runs[q].pc # "idle" \/ q = r)
        BY <2>0, <3>1, <4>1 DEF TryClaimWorkLease, Set, IdleRun
      <4>2. ActiveRuns' = ActiveRuns \cup {r} /\ r \notin ActiveRuns
        BY <3>1, <4>1, <2>3 DEF ActiveRuns, TryClaimWorkLease
      <4>3. row'.token = r /\ row'.generation = row.generation + 1 /\ (row'.age > Duration) = FALSE
        BY <3>1 DEF TryClaimWorkLease
      <4>4. Abstract!Grant(r)
        BY <3>1, <4>2, <4>3 DEF TryClaimWorkLease, Claimable, Abstract!Grant, ActiveRuns
      <4> QED BY <4>4, <2>3 DEF Abstract!Next
    <3>2. CASE RenewWorkLease(r)
      <4>1. runs[r].pc # "idle"
        BY <3>0, <3>2 DEF RunLocal, IdleRun, RenewWorkLease
      <4>2. ASSUME NEW q \in Runs PROVE runs'[q].pc = runs[q].pc
        BY <2>0, <3>2, <4>2 DEF RenewWorkLease, Set, RunType
      <4>3. ActiveRuns' = ActiveRuns /\ r \in ActiveRuns
        BY <4>1, <4>2, <2>3 DEF ActiveRuns
      <4>4. CASE row.token = r
        <5>1. row'.token = row.token /\ row'.generation = row.generation /\ (row'.age > Duration) = FALSE
          BY <2>0, <3>2, <4>4 DEF RenewWorkLease
        <5>2. Abstract!Hear(r)
          BY <4>3, <4>4, <5>1 DEF Abstract!Hear, ActiveRuns
        <5> QED BY <5>2, <2>3 DEF Abstract!Next
      <4>5. CASE row.token # r
        BY <3>2, <4>3, <4>5 DEF RenewWorkLease, Abstract!vars, ActiveRuns
      <4> QED BY <4>4, <4>5
    <3>3. CASE ReleaseWorkLease(r)
      <4>1. r \in ActiveRuns /\ ActiveRuns' = ActiveRuns \ {r}
        BY <3>3, <2>3, Leaves DEF ReleaseWorkLease
      <4>2. CASE row' = row
        <5>1. Abstract!GiveUp(r)
          BY <4>1, <4>2 DEF Abstract!GiveUp, ActiveRuns
        <5> QED BY <5>1, <2>3 DEF Abstract!Next
      <4>3. CASE row' # row
        <5>1. /\ row.token = r /\ row'.token = None /\ (row'.age > Duration) = FALSE
              /\ row'.generation = row.generation
          <6>1. row' = Released(r) /\ row.token = r
            BY <3>3, <4>3 DEF ReleaseWorkLease, Released
          <6>2. row' = [row EXCEPT !.token = None, !.age = 0]
            BY <6>1 DEF Released
          <6> QED BY <2>0, <6>1, <6>2
        <5>2. Abstract!GiveUp(r)
          BY <4>1, <5>1 DEF Abstract!GiveUp, ActiveRuns
        <5> QED BY <5>2, <2>3 DEF Abstract!Next
      <4> QED BY <4>2, <4>3
    <3>4. CASE Crash(r)
      <4>1. r \in ActiveRuns /\ ActiveRuns' = ActiveRuns \ {r} /\ row' = row
        BY <3>4, <2>3, Leaves DEF Crash
      <4>2. Abstract!GiveUp(r)
        BY <4>1 DEF Abstract!GiveUp, ActiveRuns
      <4> QED BY <4>2, <2>3 DEF Abstract!Next
    <3>5. CASE \/ Start(r) \/ HeartbeatTick(r) \/ RenewAnswered(r) \/ RenewFailed(r)
               \/ MaintainStops(r) \/ Shutdown(r) \/ FnReturns(r) \/ Join(r)
      <4>1. /\ row' = row /\ runs[r].pc # "idle"
        BY <3>0, <3>5 DEF RunLocal, IdleRun, Start, HeartbeatTick, RenewAnswered, RenewFailed,
           MaintainStops, Shutdown, Uncancelled, FnReturns, Join
      <4>2. ASSUME NEW q \in Runs PROVE runs'[q].pc # "idle" <=> runs[q].pc # "idle"
        <5>1. CASE q # r
          BY <2>0, <3>5, <4>2, <5>1 DEF Set, Start, HeartbeatTick, RenewAnswered, RenewFailed,
             MaintainStops, Shutdown, FnReturns, Join
        <5>2. CASE q = r
          BY <3>5, <4>1, <5>2, StaysActive
        <5> QED BY <5>1, <5>2
      <4> QED BY <4>1, <4>2 DEF Abstract!vars
    <3> QED BY <2>3, <3>1, <3>2, <3>3, <3>4, <3>5 DEF RunStep
  <2> QED BY <2>1, <2>2, <2>3 DEF Next
<1> QED BY <1>1, <1>2, LeaseInductive, PTL DEF Spec, ImplementsLease, Abstract!Spec
=============================================================================
