-------------------------- MODULE JobQueueProofs --------------------------
(***************************************************************************)
(* Proofs about JobQueue for any number of jobs and executions: type       *)
(* correctness, the safety invariants TLC checks, and that cleanup intent  *)
(* is never retracted by an execution that does not own it.                *)
(***************************************************************************)
EXTENDS JobQueue, TLAPS

\* The table starts empty and no execution is alive.
LEMMA InitIInv == Init => IInv
<1> SUFFICES ASSUME Init PROVE IInv
    OBVIOUS
<1>1. TypeOK
    BY RetriesAssumption
    DEF Init, TypeOK, EmptyRow, IdleRun, Rows, Runs, Phases, Outcomes, RetryCounts
<1> QED
    BY <1>1, RetriesAssumption
    DEF Init, IInv, EmptyRow, IdleRun, Live, Owns, JobOf, Active, Terminal,
        SettledByLatestClaim, ActiveIsRecoverable, OwnerSeesItsRow,
        RunsHaveJobs, OwnerIsLatestClaim, OwnerRunsItsJob, DoneIsTerminal, AbsentIsPlain

\* retry_count stays within its bound when it is counted up.
LEMMA NextRetryType ==
    ASSUME NEW n \in RetryCounts
    PROVE NextRetry(n) \in RetryCounts
BY RetriesAssumption DEF RetryCounts, NextRetry

\* A step leaves execution c alone, ends it, or moves it on with what it read
\* when it claimed.
KeepsRun(c) ==
    \/ runs'[c].pc = "idle"
    \/ /\ runs[c].pc # "idle"
       /\ runs'[c].job = runs[c].job
       /\ runs'[c].retries = runs[c].retries
       /\ runs'[c].cleanup = runs[c].cleanup

\* What a write of one row owes the invariant: the new row is consistent in
\* itself, no owner is installed, and an owner that stays still sees what it
\* read.
SoundRow(j) ==
    /\ jobs'[j].owner \in {jobs[j].owner, None}
    /\ jobs'[j].status \in Active => ~jobs'[j].done /\ jobs'[j].owner # None
    /\ jobs'[j].done => jobs'[j].status \in Terminal
    /\ jobs'[j].status = "absent" => ~jobs'[j].cleanup
    /\ settledBy'[j] # None => jobs'[j].status \in Terminal /\ settledBy'[j] = lastClaim[j]

SoundOwner(j, c) ==
    jobs'[j].owner = c /\ jobs'[j].status \in Active /\ runs'[c].pc # "idle" =>
        /\ jobs[j].status \in Active
        /\ jobs'[j].retries = jobs[j].retries
        /\ runs'[c].pc = "claimed" <=> jobs'[j].status = "claimed"

\* The common part of every step but a claim and a recovery: it writes at most
\* one row, soundly, and installs no owner.
LEMMA RowWrite ==
    ASSUME IInv, TypeOK', NEW j \in Jobs, lastClaim' = lastClaim,
           \A k \in Jobs \ {j} : jobs'[k] = jobs[k] /\ settledBy'[k] = settledBy[k],
           \A c \in Tokens : KeepsRun(c),
           \A c \in Tokens : JobOf(c) # j => runs'[c] = runs[c],
           SoundRow(j), \A c \in Tokens : SoundOwner(j, c)
    PROVE IInv'
<1> USE DEF IInv, Live, Owns, JobOf
<1>1. SettledByLatestClaim'
    BY DEF SettledByLatestClaim, SoundRow
<1>3. ActiveIsRecoverable'
    BY DEF ActiveIsRecoverable, SoundRow
<1>4. RunsHaveJobs'
    BY DEF RunsHaveJobs, KeepsRun
<1>5. OwnerIsLatestClaim'
    BY DEF OwnerIsLatestClaim, SoundRow
<1>6. OwnerRunsItsJob'
    <2> SUFFICES ASSUME NEW k \in Jobs, NEW c \in Tokens, jobs'[k].owner = c, runs'[c].pc # "idle"
                 PROVE runs'[c].job = k
        BY DEF OwnerRunsItsJob
    <2>1. jobs[k].owner = c
        BY NoneAssumption DEF SoundRow
    <2> QED
        BY <2>1 DEF OwnerRunsItsJob, KeepsRun
<1>7. DoneIsTerminal' /\ AbsentIsPlain'
    BY DEF DoneIsTerminal, AbsentIsPlain, SoundRow
<1>8. \A c \in Tokens : (Live(c) /\ Owns(c))' => Live(c) /\ Owns(c) /\ KeepsRun(c)
    <2> SUFFICES ASSUME NEW c \in Tokens, (Live(c) /\ Owns(c))' PROVE Live(c) /\ Owns(c)
        OBVIOUS
    <2>1. Live(c) /\ runs'[c].job = runs[c].job /\ JobOf(c) \in Jobs
        BY DEF KeepsRun, RunsHaveJobs
    <2>2. CASE JobOf(c) = j
        BY <2>1, <2>2, NoneAssumption DEF SoundRow, SoundOwner
    <2>3. CASE JobOf(c) # j
        BY <2>1, <2>3
    <2> QED
        BY <2>2, <2>3
<1>9. OwnerSeesItsRow'
    <2> SUFFICES ASSUME NEW c \in Tokens, (Live(c) /\ Owns(c))'
                 PROVE (/\ runs[c].retries = jobs[JobOf(c)].retries
                        /\ runs[c].pc = "claimed" <=> jobs[JobOf(c)].status = "claimed")'
        BY DEF OwnerSeesItsRow
    <2>1. Live(c) /\ Owns(c) /\ KeepsRun(c) /\ JobOf(c) \in Jobs
        BY <1>8 DEF RunsHaveJobs
    <2>2. CASE JobOf(c) = j
        BY <2>1, <2>2 DEF SoundOwner, KeepsRun, OwnerSeesItsRow
    <2>3. CASE JobOf(c) # j
        BY <2>1, <2>3 DEF OwnerSeesItsRow
    <2> QED
        BY <2>2, <2>3
<1> QED
    BY <1>1, <1>3, <1>4, <1>5, <1>6, <1>7, <1>9

\* Every row that is written has the type of a row.
LEMMA RowTypes ==
    ASSUME TypeOK, NEW j \in Jobs
    PROVE /\ jobs[j] \in Rows
          /\ \A b \in BOOLEAN : Released(jobs[j], b) \in Rows
          /\ MarkInProgress(jobs[j]) \in Rows
BY DEF TypeOK, Rows, Released, MarkInProgress, Active, Terminal

\* The field updates the actions make keep a row a row.
LEMMA RowUpdates ==
    ASSUME NEW r \in Rows, NEW n \in RetryCounts, NEW b \in BOOLEAN
    PROVE /\ [r EXCEPT !.retries = n] \in Rows
          /\ [r EXCEPT !.expired = b] \in Rows
          /\ [r EXCEPT !.cleanup = b] \in Rows
          /\ [r EXCEPT !.cleanup = b, !.retries = n] \in Rows
          /\ [r EXCEPT !.status = "failed", !.done = b] \in Rows
          /\ [r EXCEPT !.status = "completed", !.done = b] \in Rows
BY DEF Rows, Terminal

\* Producers, cancellation, requeue and the clocks preserve the invariant.
LEMMA JobActions ==
    ASSUME IInv, NEW j \in Jobs,
           \/ \E b \in BOOLEAN : CreateJob(j, b)
           \/ CancelPristine(j) \/ RequeueDestroy(j) \/ BecomeDue(j) \/ LeaseExpires(j)
    PROVE IInv'
<1> USE DEF IInv, Active, Terminal
<1>0. /\ jobs[j] \in Rows /\ lastClaim' = lastClaim /\ runs' = runs /\ claimsOn' = claimsOn
      /\ \A c \in Tokens : KeepsRun(c) /\ runs'[c] = runs[c]
    BY RowTypes DEF CreateJob, CancelPristine, RequeueDestroy, BecomeDue, LeaseExpires, KeepsRun
<1>1. ASSUME NEW b \in BOOLEAN, CreateJob(j, b) PROVE IInv'
    <2> DEFINE row == [jobs[j] EXCEPT !.status = "pending", !.due = TRUE, !.cleanup = b]
    <2>1. jobs' = [jobs EXCEPT ![j] = row] /\ row \in Rows
        <3>1. jobs' = [jobs EXCEPT ![j] = row]
            BY <1>1, Zenon DEF CreateJob
        <3>2. row \in Rows
            BY <1>0 DEF Rows
        <3> QED
            BY <3>1, <3>2
    <2>2. TypeOK'
        BY <2>1, <1>1 DEF TypeOK, CreateJob
    <2>3. /\ jobs'[j].status = "pending" /\ jobs'[j].owner = jobs[j].owner /\ jobs'[j].done = jobs[j].done
          /\ jobs[j].status = "absent" /\ settledBy' = settledBy
        <3>1. row.status = "pending" /\ row.owner = jobs[j].owner /\ row.done = jobs[j].done
            BY <1>0 DEF Rows
        <3>2. jobs'[j] = row
            BY <2>1 DEF TypeOK
        <3>3. jobs[j].status = "absent" /\ settledBy' = settledBy
            BY <1>1 DEF CreateJob
        <3> QED
            BY <3>1, <3>2, <3>3
    <2>4. SoundRow(j)
        BY <2>3 DEF SoundRow, SettledByLatestClaim, DoneIsTerminal
    <2> QED
        BY <2>1, <2>2, <2>3, <2>4, <1>0, RowWrite DEF SoundOwner, TypeOK
<1>2. CASE CancelPristine(j)
    <2> DEFINE row == [jobs[j] EXCEPT !.status = "failed", !.done = TRUE]
    <2>1. jobs' = [jobs EXCEPT ![j] = row] /\ row \in Rows
        <3>1. jobs' = [jobs EXCEPT ![j] = row]
            BY <1>2 DEF CancelPristine
        <3>2. row \in Rows
            BY <1>0 DEF Rows
        <3> QED
            BY <3>1, <3>2
    <2>2. TypeOK'
        BY <2>1, <1>2 DEF TypeOK, CancelPristine
    <2>3. SoundRow(j)
        BY <2>1, <1>2 DEF SoundRow, Rows, TypeOK, CancelPristine, SettledByLatestClaim
    <2> QED
        BY <2>1, <2>2, <2>3, <1>0, <1>2, RowWrite DEF CancelPristine, SoundOwner, Rows, TypeOK
<1>3. CASE RequeueDestroy(j)
    <2> DEFINE row == [Released(jobs[j], TRUE) EXCEPT !.retries = 0]
    <2>1. jobs' = [jobs EXCEPT ![j] = row] /\ row \in Rows
        <3>1. jobs' = [jobs EXCEPT ![j] = row]
            BY <1>3, Zenon DEF RequeueDestroy
        <3>2. Released(jobs[j], TRUE) \in Rows
            BY RowTypes
        <3>3. 0 \in RetryCounts
            BY RetriesAssumption DEF RetryCounts
        <3>4. row \in Rows
            BY <3>2, <3>3, RowUpdates, Zenon
        <3> QED
            BY <3>1, <3>4
    <2>2. TypeOK' /\ settledBy'[j] = None
        BY <2>1, <1>3 DEF TypeOK, RequeueDestroy
    <2>3. SoundRow(j)
        BY <2>1, <2>2, <1>3, RetriesAssumption DEF SoundRow, Rows, TypeOK, Released
    <2> QED
        BY <2>1, <2>2, <2>3, <1>0, <1>3, RowWrite
        DEF RequeueDestroy, SoundOwner, Rows, TypeOK, Released
<1>4. CASE BecomeDue(j)
    <2> DEFINE row == [jobs[j] EXCEPT !.due = TRUE]
    <2>1. jobs' = [jobs EXCEPT ![j] = row] /\ row \in Rows
        BY <1>0, <1>4 DEF BecomeDue, Rows, TypeOK
    <2>2. TypeOK'
        BY <2>1, <1>4 DEF TypeOK, BecomeDue
    <2>3. SoundRow(j)
        BY <2>1, <1>4
        DEF SoundRow, Rows, TypeOK, BecomeDue, SettledByLatestClaim, DoneIsTerminal, AbsentIsPlain
    <2> QED
        BY <2>1, <2>2, <2>3, <1>0, <1>4, RowWrite DEF BecomeDue, SoundOwner, Rows, TypeOK
<1>5. CASE LeaseExpires(j)
    <2> DEFINE row == [jobs[j] EXCEPT !.expired = TRUE]
    <2>1. jobs' = [jobs EXCEPT ![j] = row] /\ row \in Rows
        BY <1>0, <1>5 DEF LeaseExpires, Rows, TypeOK
    <2>2. TypeOK'
        BY <2>1, <1>5 DEF TypeOK, LeaseExpires
    <2>3. SoundRow(j)
        BY <2>1, <1>5
        DEF SoundRow, Rows, TypeOK, LeaseExpires, SettledByLatestClaim, DoneIsTerminal,
            AbsentIsPlain,
            ActiveIsRecoverable
    <2>4. \A c \in Tokens : SoundOwner(j, c)
        BY <2>1, <1>0, <1>5
        DEF LeaseExpires, SoundOwner, Rows, TypeOK, OwnerRunsItsJob, OwnerSeesItsRow, Live,
            Owns, JobOf
    <2> QED
        BY <2>1, <2>2, <2>3, <2>4, <1>0, <1>5, RowWrite DEF LeaseExpires, TypeOK
<1> QED
    BY <1>1, <1>2, <1>3, <1>4, <1>5

\* A claim needs a pending row and a token that names no other execution.
LEMMA ClaimStep ==
    ASSUME IInv, NEW j \in Jobs, NEW c \in Tokens, ClaimJob(c, j) PROVE IInv'
<1> USE DEF IInv, Active, Terminal, Live, Owns, JobOf
<1> DEFINE row == [jobs[j] EXCEPT !.status = "claimed", !.owner = c, !.expired = FALSE]
           run == [pc |-> "claimed", job |-> j, cleanup |-> jobs[j].cleanup,
                   retries |-> jobs[j].retries, out |-> "ok", cancelled |-> FALSE]
<1>0. /\ jobs' = [jobs EXCEPT ![j] = row] /\ runs' = [runs EXCEPT ![c] = run]
      /\ lastClaim' = [lastClaim EXCEPT ![j] = c] /\ claimsOn' = claimsOn /\ settledBy' = settledBy
    BY DEF ClaimJob
<1>1. row \in Rows /\ run \in Runs
    BY ZenonT(60), RowTypes DEF Rows, Runs, Phases, Outcomes
<1>5. /\ row.status = "claimed" /\ row.owner = c /\ row.retries = jobs[j].retries
      /\ row.cleanup = jobs[j].cleanup /\ row.done = jobs[j].done
      /\ run.pc = "claimed" /\ run.job = j /\ run.cleanup = jobs[j].cleanup /\ run.retries = jobs[j].retries
    BY RowTypes DEF Rows
<1> HIDE DEF row, run
<1>2. TypeOK'
    BY <1>0, <1>1 DEF TypeOK
<1>3. /\ jobs[j].status = "pending" /\ runs[c].pc = "idle" /\ settledBy[j] = None
      /\ ~jobs[j].done /\ \A k \in Jobs : jobs[k].owner # c
    BY DEF ClaimJob, Claimable, Fresh, SettledByLatestClaim, DoneIsTerminal, AbsentIsPlain
<1>4. /\ jobs'[j] = row /\ runs'[c] = run /\ lastClaim'[j] = c
      /\ \A k \in Jobs \ {j} : jobs'[k] = jobs[k] /\ lastClaim'[k] = lastClaim[k]
      /\ \A d \in Tokens \ {c} : runs'[d] = runs[d]
    BY <1>0 DEF TypeOK
<1>6. SettledByLatestClaim'
    BY <1>0, <1>3, <1>4 DEF SettledByLatestClaim
<1>7. ActiveIsRecoverable' /\ DoneIsTerminal' /\ AbsentIsPlain'
    BY <1>3, <1>4, <1>5, NoneAssumption DEF ActiveIsRecoverable, DoneIsTerminal, AbsentIsPlain
<1>8. RunsHaveJobs' /\ OwnerIsLatestClaim' /\ OwnerRunsItsJob'
    BY <1>3, <1>4, <1>5 DEF RunsHaveJobs, OwnerIsLatestClaim, OwnerRunsItsJob
<1>9. \A d \in Tokens \ {c} : (Live(d) /\ Owns(d))' => Live(d) /\ Owns(d) /\ JobOf(d) # j
    BY <1>4, <1>5 DEF RunsHaveJobs
<1>10. OwnerSeesItsRow'
    BY <1>4, <1>5, <1>9 DEF OwnerSeesItsRow, RunsHaveJobs
<1> QED
    BY <1>2, <1>6, <1>7, <1>8, <1>10

\* Recovery releases rows, each on its own: no owner is left, nothing settled.
LEMMA RecoverStep ==
    ASSUME IInv, RecoverStaleJobs PROVE IInv'
<1> USE DEF IInv, Active, Terminal, Live, Owns, JobOf
<1>1. \A j \in Jobs : jobs[j] \in Rows /\ Released(jobs[j], jobs[j].due) \in Rows
    BY RowTypes DEF Rows
<1>2. TypeOK'
    BY <1>1 DEF RecoverStaleJobs, TypeOK
<1>3. \A j \in Jobs :
        \/ jobs'[j] = jobs[j]
        \/ /\ jobs[j].status \in Active
           /\ jobs'[j].status = "pending" /\ jobs'[j].owner = None /\ ~jobs'[j].done
           /\ jobs'[j].retries = jobs[j].retries /\ jobs'[j].cleanup = jobs[j].cleanup
    BY ZenonT(60), <1>1 DEF RecoverStaleJobs, Released, Stale, Rows
<1>4. runs' = runs /\ lastClaim' = lastClaim /\ settledBy' = settledBy
    BY DEF RecoverStaleJobs
<1>5. SettledByLatestClaim'
    BY <1>3, <1>4 DEF SettledByLatestClaim
<1>6. ActiveIsRecoverable' /\ DoneIsTerminal' /\ AbsentIsPlain'
    BY <1>3 DEF ActiveIsRecoverable, DoneIsTerminal, AbsentIsPlain
<1>7. RunsHaveJobs' /\ OwnerIsLatestClaim' /\ OwnerRunsItsJob'
    BY <1>3, <1>4, NoneAssumption DEF RunsHaveJobs, OwnerIsLatestClaim, OwnerRunsItsJob
<1>8. OwnerSeesItsRow'
    BY <1>3, <1>4, NoneAssumption DEF OwnerSeesItsRow, RunsHaveJobs
<1> QED
    BY <1>2, <1>5, <1>6, <1>7, <1>8

\* Steps of one execution c: it writes its own job's row or none.
SoundWrite(c, row, run, s) ==
    /\ run.pc # "idle" => /\ run.job = runs[c].job
                          /\ run.retries = runs[c].retries
                          /\ run.cleanup = runs[c].cleanup
    /\ row.owner \in {jobs[JobOf(c)].owner, None}
    /\ row.owner \in {c, None} \/ row = jobs[JobOf(c)]
    /\ row.status \in Active => ~row.done /\ row.owner # None
    /\ row.done => row.status \in Terminal
    /\ row.status = "absent" => ~row.cleanup
    /\ s # None => row.status \in Terminal /\ s = lastClaim[JobOf(c)]
    /\ row.owner = c /\ row.status \in Active /\ run.pc # "idle" =>
           /\ jobs[JobOf(c)].status \in Active
           /\ row.retries = jobs[JobOf(c)].retries
           /\ run.pc = "claimed" <=> row.status = "claimed"

\* A sound write of an execution to its row preserves the invariant: the one
\* argument behind every fenced UPDATE of the lifecycle.
LEMMA RunWrite ==
    ASSUME IInv, NEW c \in Tokens, Live(c), NEW row \in Rows, NEW run \in Runs, NEW s \in Tokens \cup {None},
           jobs' = [jobs EXCEPT ![JobOf(c)] = row], runs' = [runs EXCEPT ![c] = run],
           settledBy' = [settledBy EXCEPT ![JobOf(c)] = s],
           lastClaim' = lastClaim, claimsOn' = claimsOn, SoundWrite(c, row, run, s)
    PROVE IInv'
<1> DEFINE j == JobOf(c)
<1>1. j \in Jobs
    BY DEF IInv, RunsHaveJobs
<1>2. TypeOK'
    BY DEF IInv, TypeOK
<1>3. /\ jobs'[j] = row /\ runs'[c] = run /\ settledBy'[j] = s
      /\ \A k \in Jobs \ {j} : jobs'[k] = jobs[k] /\ settledBy'[k] = settledBy[k]
      /\ \A d \in Tokens \ {c} : runs'[d] = runs[d]
    BY <1>1 DEF IInv, TypeOK
<1>4. \A d \in Tokens : KeepsRun(d)
    BY <1>3 DEF KeepsRun, SoundWrite, Live
<1>5. \A d \in Tokens : JobOf(d) # j => runs'[d] = runs[d]
    BY <1>3
<1>6. SoundRow(j)
    BY <1>3 DEF SoundRow, SoundWrite
<1>7. \A d \in Tokens : SoundOwner(j, d)
    <2> SUFFICES ASSUME NEW d \in Tokens PROVE SoundOwner(j, d)
        OBVIOUS
    <2>1. CASE d = c
        BY <2>1, <1>3 DEF SoundOwner, SoundWrite
    <2>2. CASE d # c
        <3> SUFFICES ASSUME row.owner = d, row.status \in Active, runs[d].pc # "idle"
                     PROVE SoundOwner(j, d)
            BY <2>2, <1>3 DEF SoundOwner
        <3>1. row = jobs[j] /\ JobOf(d) = j
            BY <2>2, <1>1, NoneAssumption DEF SoundWrite, IInv, OwnerRunsItsJob, Live
        <3> QED
            BY <2>2, <3>1, <1>3 DEF SoundOwner, IInv, OwnerSeesItsRow, Live, Owns, JobOf
    <2> QED
        BY <2>1, <2>2
<1> QED
    BY <1>1, <1>2, <1>3, <1>4, <1>5, <1>6, <1>7, RowWrite

\* An execution moves on or ends and leaves the table alone.
LEMMA RunMoves ==
    ASSUME IInv, NEW c \in Tokens, Live(c), NEW run \in Runs, runs' = [runs EXCEPT ![c] = run],
           UNCHANGED <<jobs, claimsOn, lastClaim, settledBy>>,
           run.pc # "idle" => /\ run.job = runs[c].job
                              /\ run.retries = runs[c].retries
                              /\ run.cleanup = runs[c].cleanup
                              /\ run.pc = "claimed" <=> runs[c].pc = "claimed"
    PROVE IInv'
<1> DEFINE j == JobOf(c)
<1>1. j \in Jobs
    BY DEF IInv, RunsHaveJobs
<1>2. jobs[j] \in Rows /\ settledBy[j] \in Tokens \cup {None}
    BY <1>1 DEF IInv, TypeOK
<1>3. jobs' = [jobs EXCEPT ![j] = jobs[j]] /\ settledBy' = [settledBy EXCEPT ![j] = settledBy[j]]
    BY <1>1 DEF IInv, TypeOK
<1>4. SoundWrite(c, jobs[j], run, settledBy[j])
    BY <1>1
    DEF SoundWrite, IInv, ActiveIsRecoverable, SettledByLatestClaim, DoneIsTerminal, AbsentIsPlain,
        OwnerSeesItsRow, Live, Owns, JobOf
<1> QED
    BY <1>2, <1>3, <1>4, RunWrite

\* The local states an execution moves to have the type of a run.
LEMMA RunTypes ==
    ASSUME TypeOK, NEW c \in Tokens
    PROVE /\ IdleRun \in Runs /\ IdleRun.pc = "idle"
          /\ runs[c] \in Runs
          /\ \A p \in Phases : [runs[c] EXCEPT !.pc = p] \in Runs
          /\ [runs[c] EXCEPT !.cancelled = TRUE] \in Runs
          /\ \A out \in Outcomes : [runs[c] EXCEPT !.pc = "settle", !.out = out] \in Runs
<1>1. IdleRun \in Runs /\ IdleRun.pc = "idle"
    BY RetriesAssumption DEF Runs, IdleRun, Phases, Outcomes, RetryCounts
<1>2. runs[c] \in Runs
    BY DEF TypeOK
<1>3. \A p \in Phases : [runs[c] EXCEPT !.pc = p] \in Runs
    BY <1>2 DEF Runs
<1>4. [runs[c] EXCEPT !.cancelled = TRUE] \in Runs
    BY <1>2 DEF Runs
<1>5. \A out \in Outcomes : [runs[c] EXCEPT !.pc = "settle", !.out = out] \in Runs
    BY <1>2 DEF Runs, Phases
<1> QED
    BY <1>1, <1>2, <1>3, <1>4, <1>5

\* Executions that end without a write: lost answers, refusals and crashes.
LEMMA RunEnds ==
    ASSUME IInv, NEW c \in Tokens, Live(c), End(c), UNCHANGED <<jobs, claimsOn, lastClaim, settledBy>>
    PROVE IInv'
BY RunTypes, RunMoves DEF End, IInv

\* Steps of an execution that write no row preserve the invariant.
LEMMA QuietActions ==
    ASSUME IInv, NEW c \in Tokens,
           \/ StartFails(c) \/ CompletionLost(c) \/ CleanupScheduled(c) \/ RetryFails(c)
           \/ FailureLost(c) \/ Crash(c) \/ CancelRun(c) \/ \E out \in Outcomes : BodyReturns(c, out)
    PROVE IInv'
<1>0. TypeOK
    BY DEF IInv
<1>1. CASE \/ StartFails(c) \/ CompletionLost(c) \/ CleanupScheduled(c) \/ FailureLost(c) \/ Crash(c)
    BY <1>1, RunEnds
    DEF StartFails, CompletionLost, CleanupScheduled, FailureLost, Crash, Live, Settling, MayFail
<1>2. CASE RetryFails(c)
    <2>1. Live(c) /\ UNCHANGED <<jobs, claimsOn, lastClaim, settledBy>>
        BY <1>2 DEF RetryFails, OrdinaryRetry, Settling, Live
    <2>2. CASE End(c)
        BY <2>1, <2>2, RunEnds
    <2>3. CASE Goto(c, "failing")
        <3> DEFINE run == [runs[c] EXCEPT !.pc = "failing"]
        <3>1. run \in Runs
            BY <1>0, RunTypes DEF Phases
        <3>2. runs[c].pc = "settle" /\ runs' = [runs EXCEPT ![c] = run]
            BY <1>2, <2>3 DEF RetryFails, OrdinaryRetry, Settling, Goto
        <3>3. run.pc = "failing" /\ run.job = runs[c].job /\ run.retries = runs[c].retries /\ run.cleanup = runs[c].cleanup
            BY <1>0 DEF TypeOK, Runs
        <3> QED
            BY <2>1, <3>1, <3>2, <3>3, RunMoves
    <2> QED
        BY <1>2, <2>2, <2>3 DEF RetryFails, AfterRetryError
<1>3. CASE CancelRun(c)
    <2> DEFINE run == [runs[c] EXCEPT !.cancelled = TRUE]
    <2>1. run \in Runs /\ runs' = [runs EXCEPT ![c] = run] /\ Live(c)
        BY <1>0, <1>3, RunTypes DEF CancelRun
    <2>2. run.pc = runs[c].pc /\ run.job = runs[c].job /\ run.retries = runs[c].retries /\ run.cleanup = runs[c].cleanup
        BY <1>0 DEF TypeOK, Runs
    <2> QED
        BY <1>3, <2>1, <2>2, RunMoves DEF CancelRun
<1>4. ASSUME NEW out \in Outcomes, BodyReturns(c, out) PROVE IInv'
    <2> DEFINE run == [runs[c] EXCEPT !.pc = "settle", !.out = out]
    <2>1. run \in Runs /\ runs' = [runs EXCEPT ![c] = run] /\ runs[c].pc = "body"
        BY <1>0, <1>4, RunTypes DEF BodyReturns
    <2>2. run.pc = "settle" /\ run.job = runs[c].job /\ run.retries = runs[c].retries /\ run.cleanup = runs[c].cleanup
        BY <1>0 DEF TypeOK, Runs
    <2>3. Live(c) /\ UNCHANGED <<jobs, claimsOn, lastClaim, settledBy>>
        BY <1>4 DEF BodyReturns, Live
    <2> QED
        BY <2>1, <2>2, <2>3, RunMoves
<1> QED
    BY <1>1, <1>2, <1>3, <1>4

\* Fenced writes of a running body, and the unfenced handoff of a rollback step.
LEMMA BodyWrites ==
    ASSUME IInv, NEW c \in Tokens,
           \/ RenewJobLease(c) \/ SaveRollbackSteps(c) \/ ArmCleanup(c) \/ DisarmCleanup(c)
           \/ HandoffRollbackStep(c)
    PROVE IInv'
<1> DEFINE j == JobOf(c)
<1>1. Live(c) /\ runs' = runs /\ claimsOn' = claimsOn /\ lastClaim' = lastClaim
    BY DEF RenewJobLease, SaveRollbackSteps, ArmCleanup, DisarmCleanup, HandoffRollbackStep, Live
<1>2. j \in Jobs
    BY <1>1 DEF IInv, RunsHaveJobs
<1>3. /\ jobs[j] \in Rows /\ runs[c] \in Runs /\ settledBy[j] \in Tokens \cup {None}
      /\ runs' = [runs EXCEPT ![c] = runs[c]]
    BY <1>1, <1>2 DEF IInv, TypeOK
<1>4. ASSUME settledBy' = settledBy, Owns(c), NEW row \in Rows, jobs' = [jobs EXCEPT ![j] = row],
             row.owner = jobs[j].owner, row.status = jobs[j].status, row.retries = jobs[j].retries,
             row.done = jobs[j].done
      PROVE IInv'
    <2>1. settledBy' = [settledBy EXCEPT ![j] = settledBy[j]]
        BY <1>2, <1>4 DEF IInv, TypeOK
    <2>2. runs[c].retries = jobs[j].retries /\ (runs[c].pc = "claimed" <=> jobs[j].status = "claimed")
        BY <1>1, <1>4 DEF IInv, OwnerSeesItsRow
    <2>3. SoundWrite(c, row, runs[c], settledBy[j])
        BY <1>1, <1>2, <1>4, <2>2 DEF SoundWrite, IInv, ActiveIsRecoverable, SettledByLatestClaim,
            DoneIsTerminal, Active, Owns
    <2> QED
        BY <1>1, <1>3, <1>4, <2>1, <2>3, RunWrite
<1>5. CASE RenewJobLease(c) \/ SaveRollbackSteps(c)
    <2> DEFINE row == [jobs[j] EXCEPT !.expired = FALSE]
    <2>1. /\ row \in Rows /\ row.owner = jobs[j].owner /\ row.status = jobs[j].status
          /\ row.retries = jobs[j].retries /\ row.done = jobs[j].done /\ row.cleanup = jobs[j].cleanup
        BY <1>3 DEF Rows
    <2>2. settledBy' = settledBy /\ Owns(c) /\ jobs' = [jobs EXCEPT ![j] = row]
        BY <1>5 DEF RenewJobLease, SaveRollbackSteps, Write
    <2> HIDE DEF row
    <2> QED
        BY <2>1, <2>2, <1>4
<1>6. CASE ArmCleanup(c)
    <2> DEFINE row == [jobs[j] EXCEPT !.cleanup = TRUE]
    <2>1. /\ row \in Rows /\ row.owner = jobs[j].owner /\ row.status = jobs[j].status
          /\ row.retries = jobs[j].retries /\ row.done = jobs[j].done /\ row.cleanup
        BY <1>3 DEF Rows
    <2>2. settledBy' = settledBy /\ Owns(c) /\ jobs' = [jobs EXCEPT ![j] = row]
        BY <1>6 DEF ArmCleanup, Write
    <2> HIDE DEF row
    <2> QED
        BY <2>1, <2>2, <1>4
<1>7. CASE DisarmCleanup(c)
    <2> DEFINE row == [jobs[j] EXCEPT !.cleanup = FALSE]
    <2>1. /\ row \in Rows /\ row.owner = jobs[j].owner /\ row.status = jobs[j].status
          /\ row.retries = jobs[j].retries /\ row.done = jobs[j].done
        BY <1>3 DEF Rows
    <2>2. settledBy' = settledBy /\ Owns(c) /\ jobs' = [jobs EXCEPT ![j] = row]
        BY <1>7 DEF DisarmCleanup, Write
    <2> HIDE DEF row
    <2> QED
        BY <2>1, <2>2, <1>4
<1>8. CASE HandoffRollbackStep(c)
    <2> DEFINE row == [Released(jobs[j], TRUE) EXCEPT !.cleanup = TRUE]
    <2>1. /\ row \in Rows /\ row.owner = None /\ row.status = "pending" /\ ~row.done /\ row.cleanup
        <3>1. Released(jobs[j], TRUE) \in Rows
            BY <1>2, RowTypes DEF IInv
        <3> QED
            BY <3>1, <1>3 DEF Rows, Released
    <2>2. settledBy' = [settledBy EXCEPT ![j] = None] /\ jobs' = [jobs EXCEPT ![j] = row]
        BY <1>8 DEF HandoffRollbackStep, Write
    <2> HIDE DEF row
    <2>3. SoundWrite(c, row, runs[c], None)
        BY <2>1, NoneAssumption DEF SoundWrite, Active, Terminal
    <2> QED
        BY <1>1, <1>3, <2>1, <2>2, <2>3, RunWrite
<1> QED
    BY <1>5, <1>6, <1>7, <1>8

\* The start and the settling of a job by the execution that owns it.
LEMMA SettlingWrites ==
    ASSUME IInv, NEW c \in Tokens,
           StartBody(c) \/ CompleteJob(c) \/ FailJob(c) \/ ScheduleCleanup(c) \/ ScheduleRetry(c)
    PROVE IInv'
<1> DEFINE j == JobOf(c)
<1>1. /\ Live(c) /\ Owns(c) /\ claimsOn' = claimsOn /\ lastClaim' = lastClaim
    BY
    DEF StartBody, CompleteJob, FailJob, ScheduleCleanup, ScheduleRetry, OrdinaryRetry,
        Settling, MayFail,
        SetTerminal, Live
<1>2. j \in Jobs /\ TypeOK
    BY <1>1 DEF IInv, RunsHaveJobs
<1>3. /\ jobs[j] \in Rows /\ runs[c] \in Runs /\ settledBy[j] \in Tokens \cup {None}
      /\ settledBy' = settledBy => settledBy' = [settledBy EXCEPT ![j] = settledBy[j]]
    BY <1>2 DEF TypeOK
<1>4. /\ jobs[j].owner = c /\ lastClaim[j] = c /\ settledBy[j] = None
      /\ jobs[j].status \in Active /\ ~jobs[j].done
    BY <1>1, <1>2, NoneAssumption
    DEF IInv, Owns, OwnerIsLatestClaim, SettledByLatestClaim, ActiveIsRecoverable,
        Active, Terminal
<1>5. /\ runs[c].retries = jobs[j].retries
      /\ runs[c].pc = "claimed" <=> jobs[j].status = "claimed"
    BY <1>1 DEF IInv, OwnerSeesItsRow
<1>7. CASE StartBody(c)
    <2> DEFINE row == MarkInProgress(jobs[j])
               run == [runs[c] EXCEPT !.pc = "body"]
    <2>1. /\ row \in Rows /\ row.owner = jobs[j].owner /\ row.status = "in_progress"
          /\ row.retries = jobs[j].retries /\ row.done = jobs[j].done /\ row.cleanup = jobs[j].cleanup
        BY <1>2, <1>3, RowTypes DEF Rows, MarkInProgress
    <2>2. settledBy' = settledBy /\ jobs' = [jobs EXCEPT ![j] = row]
        BY <1>7 DEF StartBody, Write
    <2>3. /\ run \in Runs /\ run.pc = "body" /\ run.job = runs[c].job
          /\ run.retries = runs[c].retries /\ run.cleanup = runs[c].cleanup
        BY <1>3 DEF Runs, Phases
    <2>4. runs' = [runs EXCEPT ![c] = run] \/ runs' = [runs EXCEPT ![c] = IdleRun]
        BY <1>7 DEF StartBody, Goto, End
    <2> HIDE DEF row, run
    <2>5. SoundWrite(c, row, run, settledBy[j])
        BY <2>1, <2>3, <1>4, <1>5, NoneAssumption DEF SoundWrite, Active, Terminal
    <2>6. SoundWrite(c, row, IdleRun, settledBy[j])
        BY <2>1, <1>4, <1>5, NoneAssumption DEF SoundWrite, Active, Terminal, IdleRun
    <2>7. IdleRun \in Runs
        BY <1>2, RunTypes
    <2> QED
        BY <1>1, <1>3, <2>1, <2>2, <2>3, <2>4, <2>5, <2>6, <2>7, RunWrite
<1>8. ASSUME NEW st \in Terminal, SetTerminal(c, st), End(c) PROVE IInv'
    <2> DEFINE row == [jobs[j] EXCEPT !.status = st, !.done = TRUE]
    <2>1. /\ row \in Rows /\ row.owner = jobs[j].owner /\ row.status = st
          /\ row.retries = jobs[j].retries /\ row.cleanup = jobs[j].cleanup
        BY <1>3 DEF Rows
    <2>2. /\ settledBy' = [settledBy EXCEPT ![j] = c] /\ jobs' = [jobs EXCEPT ![j] = row]
          /\ runs' = [runs EXCEPT ![c] = IdleRun]
        BY <1>8 DEF SetTerminal, Write, End
    <2> HIDE DEF row
    <2>3. SoundWrite(c, row, IdleRun, c)
        BY <2>1, <1>4, NoneAssumption DEF SoundWrite, Active, Terminal, IdleRun
    <2>4. IdleRun \in Runs
        BY <1>2, RunTypes
    <2> QED
        BY <1>1, <2>1, <2>2, <2>3, <2>4, RunWrite
<1>9. CASE CompleteJob(c) \/ FailJob(c)
    BY <1>8, <1>9 DEF CompleteJob, FailJob, Terminal
<1>10. ASSUME NEW row \in Rows, jobs' = [jobs EXCEPT ![j] = row], settledBy' = settledBy,
              row.owner = None, row.status = "pending", ~row.done,
              runs[c].pc = "settle", End(c) \/ UNCHANGED runs \/ AfterRetryError(c)
       PROVE IInv'
    <2> DEFINE run == [runs[c] EXCEPT !.pc = "failing"]
    <2>1. /\ run \in Runs /\ run.job = runs[c].job
          /\ run.retries = runs[c].retries /\ run.cleanup = runs[c].cleanup
        BY <1>3 DEF Runs, Phases
    <2>2. \/ runs' = [runs EXCEPT ![c] = run] \/ runs' = [runs EXCEPT ![c] = IdleRun]
          \/ runs' = [runs EXCEPT ![c] = runs[c]]
        BY <1>2, <1>10 DEF AfterRetryError, Goto, End, TypeOK
    <2> HIDE DEF run
    <2>3. /\ SoundWrite(c, row, run, settledBy[j]) /\ SoundWrite(c, row, IdleRun, settledBy[j])
          /\ SoundWrite(c, row, runs[c], settledBy[j])
        BY <2>1, <1>4, <1>10, NoneAssumption DEF SoundWrite, Active, Terminal, IdleRun
    <2>4. IdleRun \in Runs
        BY <1>2, RunTypes
    <2> QED
        BY <1>1, <1>3, <1>10, <2>1, <2>2, <2>3, <2>4, RunWrite
<1>11. Released(jobs[j], FALSE) \in Rows /\ Released(jobs[j], FALSE).retries = jobs[j].retries
    BY <1>2, <1>3, RowTypes DEF Released, Rows
<1>12. NextRetry(jobs[j].retries) \in RetryCounts
    BY <1>3, NextRetryType DEF Rows
<1>13. CASE ScheduleCleanup(c)
    <2> DEFINE row == [Released(jobs[j], FALSE) EXCEPT !.cleanup = TRUE, !.retries = NextRetry(@)]
    <2>1. row \in Rows /\ row.owner = None /\ row.status = "pending" /\ ~row.done /\ row.cleanup
        BY <1>11, <1>12, <1>3 DEF Rows, Released
    <2>2. /\ jobs' = [jobs EXCEPT ![j] = row] /\ settledBy' = settledBy /\ runs[c].pc = "settle"
          /\ End(c) \/ UNCHANGED runs
        BY <1>13 DEF ScheduleCleanup, Settling, Write
    <2> HIDE DEF row
    <2> QED
        BY <2>1, <2>2, <1>10
<1>14. CASE ScheduleRetry(c)
    <2> DEFINE row == [Released(jobs[j], FALSE) EXCEPT !.cleanup = FALSE, !.retries = NextRetry(@)]
    <2>1. row \in Rows /\ row.owner = None /\ row.status = "pending" /\ ~row.done /\ row.retries = NextRetry(jobs[j].retries)
        BY <1>11, <1>12, <1>3 DEF Rows, Released
    <2>2. /\ jobs' = [jobs EXCEPT ![j] = row] /\ settledBy' = settledBy /\ runs[c].pc = "settle"
          /\ End(c) \/ AfterRetryError(c)
        BY <1>14 DEF ScheduleRetry, OrdinaryRetry, Settling, Write
    <2> HIDE DEF row
    <2> QED
        BY <2>1, <2>2, <1>10
<1> QED
    BY <1>7, <1>9, <1>13, <1>14

\* Every step keeps the inductive invariant.
LEMMA NextIInv == IInv /\ [Next]_vars => IInv'
<1> SUFFICES ASSUME IInv, [Next]_vars PROVE IInv'
    OBVIOUS
<1>1. CASE UNCHANGED vars \/ SetProvisioningClaims
    <2>1. UNCHANGED <<jobs, runs, lastClaim, settledBy>>
        BY <1>1 DEF vars, SetProvisioningClaims
    <2>2. TypeOK'
        BY <1>1, <2>1 DEF vars, SetProvisioningClaims, IInv, TypeOK
    <2>3. (SettledByLatestClaim /\ ActiveIsRecoverable /\ OwnerIsLatestClaim /\ DoneIsTerminal /\ AbsentIsPlain)'
        BY <2>1
        DEF IInv, SettledByLatestClaim, ActiveIsRecoverable, OwnerIsLatestClaim, DoneIsTerminal,
            AbsentIsPlain
    <2>4. (OwnerSeesItsRow /\ RunsHaveJobs /\ OwnerRunsItsJob)'
        BY <2>1 DEF IInv, OwnerSeesItsRow, RunsHaveJobs, OwnerRunsItsJob, Live, Owns, JobOf
    <2> QED
        BY <2>2, <2>3, <2>4 DEF IInv
<1>2. CASE RecoverStaleJobs
    BY <1>2, RecoverStep
<1>3. ASSUME NEW j \in Jobs, JobStep(j) PROVE IInv'
    BY <1>3, JobActions, ClaimStep DEF JobStep
<1>4. ASSUME NEW c \in Tokens, RunStep(c) PROVE IInv'
    BY <1>4, QuietActions, BodyWrites, SettlingWrites DEF RunStep, LifecycleStep
<1> QED
    BY <1>1, <1>2, <1>3, <1>4 DEF Next

\* The inductive invariant holds of every reachable state.
THEOREM QueueInductive == Spec => []IInv
BY InitIInv, NextIInv, PTL DEF Spec

\* Type correctness of the jobs table and of the executions.
THEOREM QueueTypes == Spec => []TypeOK
BY QueueInductive, PTL DEF IInv

\* Only the newest claim settles a job (UpdateJobStatus and its claimed_by fence).
THEOREM QueueSettledByLatestClaim == Spec => []SettledByLatestClaim
BY QueueInductive, PTL DEF IInv

\* recoverStaleJobsSQL finds every active row once its lease expires.
THEOREM QueueActiveIsRecoverable == Spec => []ActiveIsRecoverable
BY QueueInductive, PTL DEF IInv

\* An owner's snapshot of retry_count and cleanup_only stays true of its row.
THEOREM QueueOwnerSeesItsRow == Spec => []OwnerSeesItsRow
BY QueueInductive, PTL DEF IInv

\* The action of CleanupIntentKept, without its box.
CleanupKept ==
    \A j \in Jobs : jobs[j].cleanup /\ ~jobs'[j].cleanup =>
        /\ jobs[j].status = "in_progress"
        /\ \E c \in Tokens : jobs[j].owner = c /\ Live(c) /\ JobOf(c) = j

\* A write that does not clear the flag of the row it replaces.
LEMMA KeepingWrite ==
    ASSUME TypeOK, NEW j \in Jobs, NEW row, jobs' = [jobs EXCEPT ![j] = row], jobs[j].cleanup => row.cleanup
    PROVE CleanupKept
BY DEF CleanupKept, TypeOK

\* Only DisarmVMCloneCleanup and an ordinary RetryJob clear cleanup_only, both
\* fenced by the owner's token and both of a forward execution.
LEMMA CleanupKeptByStep ==
    ASSUME IInv, [Next]_vars PROVE CleanupKept
<1>1. TypeOK /\ \A j \in Jobs : jobs[j] \in Rows
    BY DEF IInv, TypeOK
<1>2. CASE jobs' = jobs
    BY <1>2 DEF CleanupKept
<1>3. CASE RecoverStaleJobs
    BY <1>1, <1>3 DEF RecoverStaleJobs, CleanupKept, Released, Rows
<1>4. ASSUME NEW j \in Jobs, JobStep(j) PROVE CleanupKept
    <2>1. ASSUME NEW row, jobs' = [jobs EXCEPT ![j] = row], row.cleanup = jobs[j].cleanup PROVE CleanupKept
        BY <1>1, <2>1, KeepingWrite
    <2>2. ASSUME NEW b \in BOOLEAN, CreateJob(j, b) PROVE CleanupKept
        <3>1. ~jobs[j].cleanup
            BY <2>2 DEF CreateJob, IInv, AbsentIsPlain
        <3> QED
            BY <2>2, <3>1, <1>1, KeepingWrite DEF CreateJob
    <2>3. CASE CancelPristine(j)
        <3>1. [jobs[j] EXCEPT !.status = "failed", !.done = TRUE].cleanup = jobs[j].cleanup
            BY <1>1 DEF Rows
        <3> QED
            BY <2>1, <2>3, <3>1, Zenon DEF CancelPristine
    <2>4. CASE RequeueDestroy(j)
        <3>1. [Released(jobs[j], TRUE) EXCEPT !.retries = 0].cleanup = jobs[j].cleanup
            BY <1>1 DEF Rows, Released
        <3> QED
            BY <2>1, <2>4, <3>1, Zenon DEF RequeueDestroy
    <2>5. CASE BecomeDue(j)
        <3>1. [jobs[j] EXCEPT !.due = TRUE].cleanup = jobs[j].cleanup
            BY <1>1 DEF Rows
        <3> QED
            BY <2>1, <2>5, <3>1, Zenon DEF BecomeDue
    <2>6. CASE LeaseExpires(j)
        <3>1. [jobs[j] EXCEPT !.expired = TRUE].cleanup = jobs[j].cleanup
            BY <1>1 DEF Rows
        <3> QED
            BY <2>1, <2>6, <3>1, Zenon DEF LeaseExpires
    <2>7. ASSUME NEW c \in Tokens, ClaimJob(c, j) PROVE CleanupKept
        <3>1. [jobs[j] EXCEPT !.status = "claimed", !.owner = c, !.expired = FALSE].cleanup = jobs[j].cleanup
            BY <1>1 DEF Rows
        <3> QED
            BY <2>1, <2>7, <3>1, Zenon DEF ClaimJob
    <2> QED
        BY <1>4, <2>2, <2>3, <2>4, <2>5, <2>6, <2>7 DEF JobStep
<1>5. ASSUME NEW c \in Tokens, RunStep(c) PROVE CleanupKept
    <2> DEFINE j == JobOf(c)
    <2>1. CASE ~Live(c) \/ jobs' = jobs
        <3>1. jobs' = jobs
            BY <1>5, <2>1
            DEF RunStep, LifecycleStep, Live, StartBody, StartFails, BodyReturns, CompleteJob,
                CompletionLost,
                ScheduleCleanup, CleanupScheduled, ScheduleRetry, RetryFails, FailJob,
                FailureLost, RenewJobLease,
                CancelRun, Crash, SaveRollbackSteps, ArmCleanup, DisarmCleanup,
                HandoffRollbackStep, Settling,
                OrdinaryRetry, MayFail
        <3> QED
            BY <3>1, <1>2
    <2>2. ASSUME Live(c), jobs' # jobs PROVE CleanupKept
        <3>1. j \in Jobs /\ jobs[j] \in Rows
            BY <1>1, <2>2 DEF IInv, RunsHaveJobs
        <3>2. ASSUME NEW row, jobs' = [jobs EXCEPT ![j] = row], jobs[j].cleanup => row.cleanup PROVE CleanupKept
            BY <1>1, <3>1, <3>2, KeepingWrite
        <3>3. CASE RenewJobLease(c) \/ SaveRollbackSteps(c)
            <4>1. [jobs[j] EXCEPT !.expired = FALSE].cleanup = jobs[j].cleanup
                BY <3>1 DEF Rows
            <4> QED
                BY <3>2, <3>3, <4>1 DEF RenewJobLease, SaveRollbackSteps, Write
        <3>4. CASE ArmCleanup(c)
            <4>1. [jobs[j] EXCEPT !.cleanup = TRUE].cleanup
                BY <3>1 DEF Rows
            <4> QED
                BY <3>2, <3>4, <4>1 DEF ArmCleanup, Write
        <3>5. CASE HandoffRollbackStep(c)
            <4>1. [Released(jobs[j], TRUE) EXCEPT !.cleanup = TRUE].cleanup
                BY <3>1 DEF Rows, Released
            <4> QED
                BY <3>2, <3>5, <4>1 DEF HandoffRollbackStep, Write
        <3>6. CASE StartBody(c)
            <4>1. MarkInProgress(jobs[j]).cleanup = jobs[j].cleanup
                BY <3>1 DEF Rows, MarkInProgress
            <4> QED
                BY <3>2, <3>6, <4>1 DEF StartBody, Write
        <3>7. CASE CompleteJob(c) \/ FailJob(c)
            <4>1. \A st \in Terminal : [jobs[j] EXCEPT !.status = st, !.done = TRUE].cleanup = jobs[j].cleanup
                BY <3>1 DEF Rows
            <4>2. PICK st \in Terminal : SetTerminal(c, st)
                BY <3>7 DEF CompleteJob, FailJob, Terminal
            <4> QED
                BY <3>2, <4>1, <4>2 DEF SetTerminal, Write
        <3>8. CASE ScheduleCleanup(c)
            <4>1. [Released(jobs[j], FALSE) EXCEPT !.cleanup = TRUE, !.retries = NextRetry(@)].cleanup
                BY <3>1 DEF Rows, Released
            <4> QED
                BY <3>2, <3>8, <4>1 DEF ScheduleCleanup, Write
        <3>9. CASE DisarmCleanup(c) \/ ScheduleRetry(c)
            <4>1. Owns(c) /\ runs[c].pc \in {"body", "settle"}
                BY <3>9 DEF DisarmCleanup, ScheduleRetry, OrdinaryRetry, Settling
            <4>2. jobs[j].status = "in_progress" /\ jobs[j].owner = c
                BY <2>2, <4>1 DEF IInv, OwnerSeesItsRow, Owns, Active
            <4>3. \A k \in Jobs \ {j} : jobs'[k] = jobs[k]
                BY <3>1, <3>9, <1>1 DEF DisarmCleanup, ScheduleRetry, Write, TypeOK
            <4> QED
                BY <2>2, <4>1, <4>2, <4>3 DEF CleanupKept
        <3> QED
            BY <1>5, <2>2, <3>3, <3>4, <3>5, <3>6, <3>7, <3>8, <3>9
            DEF RunStep, LifecycleStep, StartFails, BodyReturns,
                CompletionLost, CleanupScheduled, RetryFails, FailureLost, CancelRun, Crash
    <2> QED
        BY <2>1, <2>2
<1> QED
    BY <1>2, <1>3, <1>4, <1>5 DEF Next, vars, SetProvisioningClaims

\* cleanup_only is retracted only by the forward execution that owns the row.
THEOREM QueueCleanupIntentKept == Spec => CleanupIntentKept
<1>1. IInv /\ [Next]_vars => [CleanupKept]_vars
    BY CleanupKeptByStep
<1> QED
    BY <1>1, QueueInductive, PTL DEF Spec, CleanupIntentKept, CleanupKept

\* The action of OrdinaryRetriesBounded, without its box.
RetriesBounded ==
    \A j \in Jobs : jobs'[j].retries > jobs[j].retries /\ ~jobs'[j].cleanup /\ Type[j] # "image_import"
        => jobs[j].retries < MaxRetries

\* A write that does not count up the row it replaces.
LEMMA SteadyWrite ==
    ASSUME TypeOK, NEW j \in Jobs, NEW row, jobs' = [jobs EXCEPT ![j] = row],
           row.retries = jobs[j].retries \/ row.retries = 0 \/ row.cleanup
    PROVE RetriesBounded
<1>1. \A k \in Jobs : jobs[k].retries \in Nat
    BY RetriesAssumption DEF TypeOK, Rows, RetryCounts
<1>2. jobs'[j] = row /\ \A k \in Jobs \ {j} : jobs'[k] = jobs[k]
    BY DEF TypeOK
<1> QED
    BY <1>1, <1>2 DEF RetriesBounded

\* Only RetryJob counts up, and an ordinary one compared the snapshot that
\* OwnerSeesItsRow says is still the row's.
LEMMA RetriesBoundedByStep ==
    ASSUME IInv, [Next]_vars PROVE RetriesBounded
<1>1. TypeOK /\ \A j \in Jobs : jobs[j] \in Rows /\ jobs[j].retries \in Nat
    BY RetriesAssumption DEF IInv, TypeOK, Rows, RetryCounts
<1>2. CASE jobs' = jobs
    BY <1>1, <1>2 DEF RetriesBounded
<1>3. CASE RecoverStaleJobs
    <2>1. \A j \in Jobs : jobs'[j].retries = jobs[j].retries
        BY <1>1, <1>3 DEF RecoverStaleJobs, Released, Rows
    <2> QED
        BY <1>1, <2>1 DEF RetriesBounded
<1>4. ASSUME NEW j \in Jobs, JobStep(j) PROVE RetriesBounded
    <2>1. ASSUME NEW row, jobs' = [jobs EXCEPT ![j] = row],
                 row.retries = jobs[j].retries \/ row.retries = 0 PROVE RetriesBounded
        BY <1>1, <2>1, SteadyWrite
    <2>2. ASSUME NEW b \in BOOLEAN, CreateJob(j, b) PROVE RetriesBounded
        <3>1. [jobs[j] EXCEPT !.status = "pending", !.due = TRUE, !.cleanup = b].retries = jobs[j].retries
            BY <1>1 DEF Rows
        <3> QED
            BY <2>1, <2>2, <3>1, Zenon DEF CreateJob
    <2>3. CASE CancelPristine(j)
        <3>1. [jobs[j] EXCEPT !.status = "failed", !.done = TRUE].retries = jobs[j].retries
            BY <1>1 DEF Rows
        <3> QED
            BY <2>1, <2>3, <3>1, Zenon DEF CancelPristine
    <2>4. CASE RequeueDestroy(j)
        <3>1. [Released(jobs[j], TRUE) EXCEPT !.retries = 0].retries = 0
            BY <1>1 DEF Rows, Released
        <3> QED
            BY <2>1, <2>4, <3>1, Zenon DEF RequeueDestroy
    <2>5. CASE BecomeDue(j)
        <3>1. [jobs[j] EXCEPT !.due = TRUE].retries = jobs[j].retries
            BY <1>1 DEF Rows
        <3> QED
            BY <2>1, <2>5, <3>1, Zenon DEF BecomeDue
    <2>6. CASE LeaseExpires(j)
        <3>1. [jobs[j] EXCEPT !.expired = TRUE].retries = jobs[j].retries
            BY <1>1 DEF Rows
        <3> QED
            BY <2>1, <2>6, <3>1, Zenon DEF LeaseExpires
    <2>7. ASSUME NEW c \in Tokens, ClaimJob(c, j) PROVE RetriesBounded
        <3>1. [jobs[j] EXCEPT !.status = "claimed", !.owner = c, !.expired = FALSE].retries = jobs[j].retries
            BY <1>1 DEF Rows
        <3> QED
            BY <2>1, <2>7, <3>1, Zenon DEF ClaimJob
    <2> QED
        BY <1>4, <2>2, <2>3, <2>4, <2>5, <2>6, <2>7 DEF JobStep
<1>5. ASSUME NEW c \in Tokens, RunStep(c), jobs' # jobs PROVE RetriesBounded
    <2> DEFINE j == JobOf(c)
    <2>1. Live(c)
        BY <1>5
        DEF RunStep, LifecycleStep, Live, StartBody, StartFails, BodyReturns, CompleteJob,
            CompletionLost,
            ScheduleCleanup, CleanupScheduled, ScheduleRetry, RetryFails, FailJob, FailureLost,
            RenewJobLease,
            CancelRun, Crash, SaveRollbackSteps, ArmCleanup, DisarmCleanup, HandoffRollbackStep,
            Settling,
            OrdinaryRetry, MayFail
    <2>2. j \in Jobs /\ jobs[j] \in Rows
        BY <1>1, <2>1 DEF IInv, RunsHaveJobs
    <2>3. ASSUME NEW row, jobs' = [jobs EXCEPT ![j] = row],
                 row.retries = jobs[j].retries \/ row.cleanup PROVE RetriesBounded
        BY <1>1, <2>2, <2>3, SteadyWrite
    <2>4. CASE RenewJobLease(c) \/ SaveRollbackSteps(c)
        <3>1. [jobs[j] EXCEPT !.expired = FALSE].retries = jobs[j].retries
            BY <2>2 DEF Rows
        <3> QED
            BY <2>3, <2>4, <3>1 DEF RenewJobLease, SaveRollbackSteps, Write
    <2>5. CASE ArmCleanup(c) \/ DisarmCleanup(c)
        <3>1. \A b \in BOOLEAN : [jobs[j] EXCEPT !.cleanup = b].retries = jobs[j].retries
            BY <2>2 DEF Rows
        <3>2. PICK b \in BOOLEAN : jobs' = [jobs EXCEPT ![j] = [jobs[j] EXCEPT !.cleanup = b]]
            BY <2>5 DEF ArmCleanup, DisarmCleanup, Write
        <3> QED
            BY <2>3, <3>1, <3>2
    <2>6. CASE HandoffRollbackStep(c)
        <3>1. [Released(jobs[j], TRUE) EXCEPT !.cleanup = TRUE].retries = jobs[j].retries
            BY <2>2 DEF Rows, Released
        <3> QED
            BY <2>3, <2>6, <3>1 DEF HandoffRollbackStep, Write
    <2>7. CASE StartBody(c)
        <3>1. MarkInProgress(jobs[j]).retries = jobs[j].retries
            BY <2>2 DEF Rows, MarkInProgress
        <3> QED
            BY <2>3, <2>7, <3>1 DEF StartBody, Write
    <2>8. CASE CompleteJob(c) \/ FailJob(c)
        <3>1. \A st \in Terminal : [jobs[j] EXCEPT !.status = st, !.done = TRUE].retries = jobs[j].retries
            BY <2>2 DEF Rows
        <3>2. PICK st \in Terminal : SetTerminal(c, st)
            BY <2>8 DEF CompleteJob, FailJob, Terminal
        <3> QED
            BY <2>3, <3>1, <3>2 DEF SetTerminal, Write
    <2>9. CASE ScheduleCleanup(c)
        <3>1. [Released(jobs[j], FALSE) EXCEPT !.cleanup = TRUE, !.retries = NextRetry(@)].cleanup
            BY <2>2 DEF Rows, Released
        <3> QED
            BY <2>3, <2>9, <3>1 DEF ScheduleCleanup, Write
    <2>10. CASE ScheduleRetry(c)
        <3>1. Owns(c) /\ WithinBudget(c)
            BY <2>10 DEF ScheduleRetry, OrdinaryRetry
        <3>2. Type[j] # "image_import" => jobs[j].retries < MaxRetries
            BY <2>1, <3>1 DEF IInv, OwnerSeesItsRow, WithinBudget
        <3>3. \A k \in Jobs \ {j} : jobs'[k] = jobs[k]
            BY <1>1, <2>2, <2>10 DEF ScheduleRetry, Write, TypeOK
        <3> QED
            BY <1>1, <3>2, <3>3 DEF RetriesBounded
    <2> QED
        BY <1>5, <2>4, <2>5, <2>6, <2>7, <2>8, <2>9, <2>10
        DEF RunStep, LifecycleStep, StartFails, BodyReturns,
            CompletionLost, CleanupScheduled, RetryFails, FailureLost, CancelRun, Crash
<1> QED
    BY <1>2, <1>3, <1>4, <1>5 DEF Next, vars, SetProvisioningClaims

\* max_retries holds although retry decisions use a snapshot of retry_count.
THEOREM QueueOrdinaryRetriesBounded == Spec => OrdinaryRetriesBounded
<1>1. IInv /\ [Next]_vars => [RetriesBounded]_vars
    BY RetriesBoundedByStep
<1> QED
    BY <1>1, QueueInductive, PTL DEF Spec, OrdinaryRetriesBounded, RetriesBounded

-----------------------------------------------------------------------------
(* The queue implements its abstract specification. *)

\* The abstract state, element by element.
LEMMA AbstractTypes ==
    ASSUME TypeOK
    PROVE /\ DOMAIN JobStates = Jobs /\ DOMAIN JobHolders = Jobs /\ DOMAIN RunsAtWork = Tokens
          /\ \A j \in Jobs : JobStates[j] = StateOf(jobs[j]) /\ JobHolders[j] = HolderOf(jobs[j])
          /\ \A c \in Tokens : RunsAtWork[c] = WorkOf(runs[c])
BY DEF JobStates, JobHolders, RunsAtWork

\* A write of one row puts that job, and no other, in its new abstract state.
LEMMA AbstractWrite ==
    ASSUME TypeOK, NEW j \in Jobs, NEW row, jobs' = [jobs EXCEPT ![j] = row]
    PROVE /\ JobStates' = [JobStates EXCEPT ![j] = StateOf(row)]
          /\ JobHolders' = [JobHolders EXCEPT ![j] = HolderOf(row)]
<1>1. \A k \in Jobs : jobs'[k] = IF k = j THEN row ELSE jobs[k]
  BY DEF TypeOK
<1>2. JobStates' = [k \in Jobs |-> StateOf(jobs'[k])] /\ JobHolders' = [k \in Jobs |-> HolderOf(jobs'[k])]
  BY DEF JobStates, JobHolders, StateOf, HolderOf
<1>3. \A k \in Jobs : /\ StateOf(jobs'[k]) = IF k = j THEN StateOf(row) ELSE JobStates[k]
                      /\ HolderOf(jobs'[k]) = IF k = j THEN HolderOf(row) ELSE JobHolders[k]
  BY <1>1, AbstractTypes
<1>4. JobStates = [k \in Jobs |-> JobStates[k]] /\ JobHolders = [k \in Jobs |-> JobHolders[k]]
  BY DEF JobStates, JobHolders
<1> QED
  BY <1>2, <1>3, <1>4

\* A write that neither grants a row nor takes it away is not seen.
LEMMA AbstractSame ==
    ASSUME TypeOK, NEW j \in Jobs, NEW row, jobs' = [jobs EXCEPT ![j] = row],
           StateOf(row) = StateOf(jobs[j]), HolderOf(row) = HolderOf(jobs[j])
    PROVE JobStates' = JobStates /\ JobHolders' = JobHolders
<1>1. JobStates[j] = StateOf(row) /\ JobHolders[j] = HolderOf(row)
  BY AbstractTypes
<1> QED
  BY <1>1, AbstractTypes, AbstractWrite DEF JobStates, JobHolders

\* A step of one execution.
LEMMA AbstractMove ==
    ASSUME TypeOK, NEW c \in Tokens, NEW run, runs' = [runs EXCEPT ![c] = run]
    PROVE RunsAtWork' = [RunsAtWork EXCEPT ![c] = WorkOf(run)]
<1>1. \A d \in Tokens : runs'[d] = IF d = c THEN run ELSE runs[d]
  BY DEF TypeOK
<1>2. RunsAtWork' = [d \in Tokens |-> WorkOf(runs'[d])]
  BY DEF RunsAtWork, WorkOf
<1>3. \A d \in Tokens : WorkOf(runs'[d]) = IF d = c THEN WorkOf(run) ELSE RunsAtWork[d]
  BY <1>1, AbstractTypes
<1>4. RunsAtWork = [d \in Tokens |-> RunsAtWork[d]]
  BY DEF RunsAtWork
<1> QED
  BY <1>2, <1>3, <1>4

\* What is not written does not change.
LEMMA AbstractUnwritten ==
    /\ jobs' = jobs => JobStates' = JobStates /\ JobHolders' = JobHolders
    /\ runs' = runs => RunsAtWork' = RunsAtWork
BY DEF JobStates, JobHolders, RunsAtWork

\* An execution that goes on works on the same job.
LEMMA AbstractGoesOn ==
    ASSUME TypeOK, NEW c \in Tokens, NEW run, runs' = [runs EXCEPT ![c] = run],
           WorkOf(run) = WorkOf(runs[c])
    PROVE RunsAtWork' = RunsAtWork
<1>1. RunsAtWork[c] = WorkOf(run)
  BY AbstractTypes
<1> QED
  BY <1>1, AbstractTypes, AbstractMove DEF RunsAtWork

\* The end of an execution.
LEMMA AbstractEnd ==
    ASSUME TypeOK, NEW c \in Tokens, End(c)
    PROVE Abstract!Stops(c)
<1>1. WorkOf(IdleRun) = None
  BY DEF IdleRun, WorkOf
<1> QED
  BY <1>1, AbstractMove DEF End, Abstract!Stops

\* Producers, clocks and claims.
LEMMA AbstractJobStep ==
    ASSUME IInv, NEW j \in Jobs, JobStep(j) PROVE [Abstract!Next]_(Abstract!vars)
<1>1. TypeOK /\ jobs[j] \in Rows
  BY DEF IInv, TypeOK
<1>2. ASSUME NEW b \in BOOLEAN, CreateJob(j, b) PROVE Abstract!Submit(j)
  <2>1. PICK row : row = [jobs[j] EXCEPT !.status = "pending", !.due = TRUE, !.cleanup = b]
    OBVIOUS
  <2>2. StateOf(row) = "waiting" /\ HolderOf(row) = None
    BY <1>1, <2>1 DEF Rows, StateOf, HolderOf, Active
  <2>3. StateOf(jobs[j]) = "absent"
    BY <1>2 DEF CreateJob, StateOf, Active
  <2>4. jobs' = [jobs EXCEPT ![j] = row]
    BY <1>2, <2>1 DEF CreateJob
  <2>5. Abstract!Put(j, "waiting", None)
    BY <1>1, <2>2, <2>4, AbstractWrite DEF Abstract!Put
  <2> QED
    BY <1>1, <1>2, <2>3, <2>5, AbstractTypes, AbstractUnwritten DEF CreateJob, Abstract!Submit
<1>3. CASE CancelPristine(j)
  <2>1. PICK row : row = [jobs[j] EXCEPT !.status = "failed", !.done = TRUE]
    OBVIOUS
  <2>2. StateOf(row) = "failed" /\ HolderOf(row) = None
    BY <1>1, <2>1 DEF Rows, StateOf, HolderOf, Active
  <2>3. StateOf(jobs[j]) = "waiting"
    BY <1>3 DEF CancelPristine, StateOf, Active
  <2>4. jobs' = [jobs EXCEPT ![j] = row]
    BY <1>3, <2>1 DEF CancelPristine
  <2>5. Abstract!Put(j, "failed", None)
    BY <1>1, <2>2, <2>4, AbstractWrite DEF Abstract!Put
  <2>6. Abstract!Withdraw(j)
    BY <1>1, <1>3, <2>3, <2>5, AbstractTypes, AbstractUnwritten
    DEF CancelPristine, Abstract!Withdraw
  <2> QED
    BY <2>6 DEF Abstract!Next
<1>4. CASE RequeueDestroy(j)
  <2>1. PICK row : row = [Released(jobs[j], TRUE) EXCEPT !.retries = 0]
    OBVIOUS
  <2>2. StateOf(row) = "waiting" /\ HolderOf(row) = None
    BY <1>1, <2>1 DEF Rows, Released, StateOf, HolderOf, Active
  <2>3. StateOf(jobs[j]) \in {"completed", "failed"}
    BY <1>4 DEF RequeueDestroy, StateOf, Active, Terminal
  <2>4. jobs' = [jobs EXCEPT ![j] = row]
    BY <1>4, <2>1 DEF RequeueDestroy
  <2>5. Abstract!Put(j, "waiting", None)
    BY <1>1, <2>2, <2>4, AbstractWrite DEF Abstract!Put
  <2>6. Abstract!Restart(j)
    BY <1>1, <1>4, <2>3, <2>5, AbstractTypes, AbstractUnwritten DEF RequeueDestroy, Abstract!Restart
  <2> QED
    BY <2>6 DEF Abstract!Next
<1>5. CASE BecomeDue(j) \/ LeaseExpires(j)
  <2>1. PICK row : /\ row \in {[jobs[j] EXCEPT !.due = TRUE], [jobs[j] EXCEPT !.expired = TRUE]}
                   /\ jobs' = [jobs EXCEPT ![j] = row]
    BY <1>5 DEF BecomeDue, LeaseExpires
  <2>2. row.status = jobs[j].status /\ row.owner = jobs[j].owner
    BY <1>1, <2>1 DEF Rows
  <2>3. StateOf(row) = StateOf(jobs[j]) /\ HolderOf(row) = HolderOf(jobs[j])
    BY <2>2 DEF StateOf, HolderOf
  <2> QED
    BY <1>1, <1>5, <2>1, <2>3, AbstractSame, AbstractUnwritten
    DEF BecomeDue, LeaseExpires, Abstract!vars
<1>6. ASSUME NEW c \in Tokens, ClaimJob(c, j) PROVE Abstract!Grant(c, j)
  <2>1. PICK row : row = [jobs[j] EXCEPT !.status = "claimed", !.owner = c, !.expired = FALSE]
    OBVIOUS
  <2>2. StateOf(row) = "held" /\ HolderOf(row) = c
    BY <1>1, <2>1 DEF Rows, StateOf, HolderOf, Active
  <2>3. StateOf(jobs[j]) = "waiting"
    BY <1>6 DEF ClaimJob, Claimable, StateOf, Active
  <2>4. jobs' = [jobs EXCEPT ![j] = row]
    BY <1>6, <2>1 DEF ClaimJob
  <2>5. PICK run : /\ runs' = [runs EXCEPT ![c] = run]
                   /\ run = [pc |-> "claimed", job |-> j, cleanup |-> jobs[j].cleanup,
                             retries |-> jobs[j].retries, out |-> "ok", cancelled |-> FALSE]
    BY <1>6 DEF ClaimJob
  <2>6. WorkOf(run) = j
    BY <2>5 DEF WorkOf
  <2>7. RunsAtWork[c] = None
    BY <1>1, <1>6, AbstractTypes DEF ClaimJob, Fresh, Live, WorkOf
  <2>8. \A k \in Jobs : JobHolders[k] # c
    BY <1>1, <1>6, AbstractTypes, NoneAssumption DEF ClaimJob, Fresh, HolderOf
  <2>9. Abstract!Put(j, "held", c)
    BY <1>1, <2>2, <2>4, AbstractWrite DEF Abstract!Put
  <2>10. RunsAtWork' = [RunsAtWork EXCEPT ![c] = j]
    BY <1>1, <2>5, <2>6, AbstractMove
  <2> QED
    BY <1>1, <2>3, <2>7, <2>8, <2>9, <2>10, AbstractTypes DEF Abstract!Grant
<1> QED
  BY <1>2, <1>3, <1>4, <1>5, <1>6 DEF JobStep, Abstract!Next

\* RecoverStaleJobs revokes every job whose lease expired.
LEMMA AbstractRecovery ==
    ASSUME IInv, RecoverStaleJobs PROVE Abstract!Next
<1> DEFINE lost == {j \in Jobs : Stale(jobs[j])}
<1>1. TypeOK /\ \A j \in Jobs : jobs[j] \in Rows
  BY DEF IInv, TypeOK
<1>2. \A j \in Jobs : jobs'[j] = IF j \in lost THEN Released(jobs[j], jobs[j].due) ELSE jobs[j]
  BY DEF RecoverStaleJobs
<1>3. \A j \in Jobs : LET row == Released(jobs[j], jobs[j].due)
                      IN  StateOf(row) = "waiting" /\ HolderOf(row) = None
  BY <1>1 DEF Rows, Released, StateOf, HolderOf, Active
<1>4. JobStates' = [j \in Jobs |-> StateOf(jobs'[j])] /\ JobHolders' = [j \in Jobs |-> HolderOf(jobs'[j])]
  BY DEF JobStates, JobHolders, StateOf, HolderOf
<1>5. \A j \in Jobs : /\ StateOf(jobs'[j]) = IF j \in lost THEN "waiting" ELSE JobStates[j]
                      /\ HolderOf(jobs'[j]) = IF j \in lost THEN None ELSE JobHolders[j]
  BY <1>1, <1>2, <1>3, AbstractTypes
<1>6. \A j \in lost : JobStates[j] = "held"
  BY <1>1, AbstractTypes DEF Stale, StateOf, Active
<1>7. lost # {} /\ lost \in SUBSET Jobs
  BY DEF RecoverStaleJobs
<1>8. Abstract!Revoke(lost)
  BY <1>4, <1>5, <1>6, <1>7, AbstractUnwritten DEF RecoverStaleJobs, Abstract!Revoke
<1> QED
  BY <1>7, <1>8 DEF Abstract!Next

\* The steps of an execution.
LEMMA AbstractRunStep ==
    ASSUME IInv, NEW c \in Tokens, RunStep(c) PROVE [Abstract!Next]_(Abstract!vars)
<1> DEFINE j == JobOf(c)
<1>1. TypeOK /\ runs[c] \in Runs
  BY DEF IInv, TypeOK
<1>2. Live(c)
  BY
  DEF RunStep, LifecycleStep, Live, StartBody, StartFails, BodyReturns, CompleteJob, CompletionLost,
     ScheduleCleanup, CleanupScheduled, ScheduleRetry, RetryFails, FailJob, FailureLost,
     RenewJobLease,
     CancelRun, Crash, SaveRollbackSteps, ArmCleanup, DisarmCleanup, HandoffRollbackStep, Settling,
     OrdinaryRetry, MayFail
<1>3. j \in Jobs /\ jobs[j] \in Rows /\ RunsAtWork[c] = j /\ j # None
  BY <1>1, <1>2, AbstractTypes, NoneAssumption DEF IInv, TypeOK, RunsHaveJobs, Live, WorkOf, JobOf
<1>4. Owns(c) => JobHolders[j] = c /\ Abstract!Holds(c)
  BY <1>1, <1>3, AbstractTypes DEF Owns, HolderOf, Abstract!Holds
\* An execution that ends, or goes on with its job.
<1>5. End(c) => RunsAtWork' = [RunsAtWork EXCEPT ![c] = None]
  BY <1>1, AbstractEnd DEF Abstract!Stops
<1>6. ASSUME NEW p \in Phases \ {"idle"}, Goto(c, p) PROVE RunsAtWork' = RunsAtWork
  <2>1. PICK run : run = [runs[c] EXCEPT !.pc = p] /\ runs' = [runs EXCEPT ![c] = run]
    BY <1>6 DEF Goto
  <2>2. run.pc # "idle" /\ run.job = runs[c].job
    BY <1>1, <2>1 DEF Runs
  <2>3. WorkOf(run) = WorkOf(runs[c])
    BY <1>2, <2>2 DEF Live, WorkOf
  <2> QED
    BY <1>1, <2>1, <2>3, AbstractGoesOn
<1>7. ASSUME NEW b \in BOOLEAN, Write(c, [jobs[j] EXCEPT !.expired = FALSE]) \/ Write(c, [jobs[j] EXCEPT !.cleanup = b])
      PROVE JobStates' = JobStates /\ JobHolders' = JobHolders
  <2>1. PICK row : /\ row \in {[jobs[j] EXCEPT !.expired = FALSE], [jobs[j] EXCEPT !.cleanup = b]}
                   /\ jobs' = [jobs EXCEPT ![j] = row]
    BY <1>7 DEF Write
  <2>2. row.status = jobs[j].status /\ row.owner = jobs[j].owner
    BY <1>3, <2>1 DEF Rows
  <2>3. StateOf(row) = StateOf(jobs[j]) /\ HolderOf(row) = HolderOf(jobs[j])
    BY <2>2 DEF StateOf, HolderOf
  <2> QED
    BY <1>1, <1>3, <2>1, <2>3, AbstractSame
<1>8. CASE RenewJobLease(c) \/ SaveRollbackSteps(c) \/ ArmCleanup(c) \/ DisarmCleanup(c)
  <2>1. JobStates' = JobStates /\ JobHolders' = JobHolders
    BY <1>7, <1>8 DEF RenewJobLease, SaveRollbackSteps, ArmCleanup, DisarmCleanup
  <2>2. runs' = runs
    BY <1>8 DEF RenewJobLease, SaveRollbackSteps, ArmCleanup, DisarmCleanup
  <2> QED
    BY <2>1, <2>2, AbstractUnwritten DEF Abstract!vars
<1>9. CASE StartFails(c) \/ CompletionLost(c) \/ CleanupScheduled(c) \/ FailureLost(c) \/ Crash(c)
  <2>1. End(c) /\ jobs' = jobs
    BY <1>9 DEF StartFails, CompletionLost, CleanupScheduled, FailureLost, Crash
  <2>2. Abstract!Stop(c)
    BY <1>3, <1>5, <2>1, AbstractUnwritten DEF Abstract!Stop, Abstract!Stops
  <2> QED
    BY <2>2 DEF Abstract!Next
<1>10. CASE CancelRun(c) \/ \E out \in Outcomes : BodyReturns(c, out)
  <2>1. PICK run : /\ runs' = [runs EXCEPT ![c] = run]
                   /\ \/ run = [runs[c] EXCEPT !.cancelled = TRUE]
                      \/ \E out \in Outcomes : run = [runs[c] EXCEPT !.pc = "settle", !.out = out]
    BY <1>10 DEF CancelRun, BodyReturns
  <2>2. run.pc # "idle" /\ run.job = runs[c].job
    BY <1>1, <1>2, <2>1 DEF Runs, Live
  <2>3. WorkOf(run) = WorkOf(runs[c])
    BY <1>2, <2>2 DEF Live, WorkOf
  <2>4. jobs' = jobs
    BY <1>10 DEF CancelRun, BodyReturns
  <2> QED
    BY <1>1, <2>1, <2>3, <2>4, AbstractGoesOn, AbstractUnwritten DEF Abstract!vars
<1>11. CASE RetryFails(c)
  <2>1. jobs' = jobs /\ (End(c) \/ Goto(c, "failing"))
    BY <1>11 DEF RetryFails, AfterRetryError
  <2>2. CASE End(c)
    <3>1. Abstract!Stop(c)
      BY <1>3, <1>5, <2>1, <2>2, AbstractUnwritten DEF Abstract!Stop, Abstract!Stops
    <3> QED
      BY <3>1 DEF Abstract!Next
  <2>3. CASE Goto(c, "failing")
    BY <1>6, <2>1, <2>3, AbstractUnwritten DEF Phases, Abstract!vars
  <2> QED
    BY <2>1, <2>2, <2>3
<1>12. CASE StartBody(c)
  <2>1. PICK row : row = MarkInProgress(jobs[j]) /\ jobs' = [jobs EXCEPT ![j] = row]
    BY <1>12 DEF StartBody, Write
  <2>2. row.status \in Active /\ row.owner = jobs[j].owner /\ jobs[j].status \in Active
    BY <1>3, <1>12, <2>1 DEF Rows, MarkInProgress, Active, StartBody
  <2>3. StateOf(row) = StateOf(jobs[j]) /\ HolderOf(row) = HolderOf(jobs[j])
    BY <2>2 DEF StateOf, HolderOf, Active
  <2>4. JobStates' = JobStates /\ JobHolders' = JobHolders
    BY <1>1, <1>3, <2>1, <2>3, AbstractSame
  <2>5. CASE End(c)
    <3>1. Abstract!Stop(c)
      BY <1>3, <1>5, <2>4, <2>5 DEF Abstract!Stop, Abstract!Stops
    <3> QED
      BY <3>1 DEF Abstract!Next
  <2>6. CASE Goto(c, "body")
    BY <1>6, <2>4, <2>6 DEF Phases, Abstract!vars
  <2> QED
    BY <1>12, <2>5, <2>6 DEF StartBody
<1>13. CASE CompleteJob(c) \/ FailJob(c)
  <2>1. PICK st \in Terminal : SetTerminal(c, st)
    BY <1>13 DEF CompleteJob, FailJob, Terminal
  <2>2. PICK row : row = [jobs[j] EXCEPT !.status = st, !.done = TRUE] /\ jobs' = [jobs EXCEPT ![j] = row]
    BY <2>1 DEF SetTerminal, Write
  <2>3. StateOf(row) = st /\ HolderOf(row) = None
    BY <1>3, <2>1, <2>2 DEF Rows, StateOf, HolderOf, Active, Terminal
  <2>4. End(c) /\ Owns(c)
    BY <1>13 DEF CompleteJob, FailJob, SetTerminal
  <2>5. Abstract!Put(j, st, None)
    BY <1>1, <1>3, <2>2, <2>3, AbstractWrite DEF Abstract!Put
  <2>6. Abstract!Finish(c, st)
    BY <1>3, <1>4, <1>5, <2>4, <2>5 DEF Abstract!Finish, Abstract!Stops
  <2> QED
    BY <2>1, <2>6 DEF Abstract!Next, Terminal
<1>14. CASE ScheduleCleanup(c) \/ ScheduleRetry(c)
  <2>1. PICK b \in BOOLEAN : jobs' = [jobs EXCEPT ![j] =
            [Released(jobs[j], FALSE) EXCEPT !.cleanup = b, !.retries = NextRetry(@)]]
    BY <1>14 DEF ScheduleCleanup, ScheduleRetry, Write
  <2>2. PICK row : /\ row = [Released(jobs[j], FALSE) EXCEPT !.cleanup = b, !.retries = NextRetry(@)]
                   /\ jobs' = [jobs EXCEPT ![j] = row]
    BY <2>1
  <2>3. StateOf(row) = "waiting" /\ HolderOf(row) = None
    BY <1>3, <2>2 DEF Rows, Released, StateOf, HolderOf, Active
  <2>4. Owns(c) /\ (End(c) \/ runs' = runs \/ Goto(c, "failing"))
    BY <1>14 DEF ScheduleCleanup, ScheduleRetry, AfterRetryError
  <2>5. Abstract!Stops(c) \/ RunsAtWork' = RunsAtWork
    BY <1>5, <1>6, <2>4, AbstractUnwritten DEF Abstract!Stops, Phases
  <2>6. Abstract!Put(j, "waiting", None)
    BY <1>1, <1>3, <2>2, <2>3, AbstractWrite DEF Abstract!Put
  <2>7. Abstract!GiveBack(c)
    BY <1>3, <1>4, <2>4, <2>5, <2>6 DEF Abstract!GiveBack
  <2> QED
    BY <2>7 DEF Abstract!Next
<1>15. CASE HandoffRollbackStep(c)
  <2>1. PICK row : row = [Released(jobs[j], TRUE) EXCEPT !.cleanup = TRUE] /\ jobs' = [jobs EXCEPT ![j] = row]
    BY <1>15 DEF HandoffRollbackStep, Write
  <2>2. StateOf(row) = "waiting" /\ HolderOf(row) = None
    BY <1>3, <2>1 DEF Rows, Released, StateOf, HolderOf, Active
  <2>3. JobStates[j] # "completed"
    BY <1>1, <1>3, <1>15, AbstractTypes DEF HandoffRollbackStep, StateOf, Active
  <2>4. runs' = runs /\ Type[j] = "pod_create"
    BY <1>15 DEF HandoffRollbackStep
  <2>5. Abstract!Put(j, "waiting", None)
    BY <1>1, <1>3, <2>1, <2>2, AbstractWrite DEF Abstract!Put
  <2>6. Abstract!HandOff(c)
    BY <1>3, <2>3, <2>4, <2>5, AbstractUnwritten DEF Abstract!HandOff
  <2> QED
    BY <2>6 DEF Abstract!Next
<1> QED
  BY <1>8, <1>9, <1>10, <1>11, <1>12, <1>13, <1>14, <1>15 DEF RunStep, LifecycleStep

\* The job table and its executions implement the abstract queue, for any
\* number of jobs, executions and retries.
THEOREM QueueImplemented == Spec => ImplementsQueue
<1>1. Init => Abstract!Init
  BY
  DEF Init, EmptyRow, IdleRun, JobStates, JobHolders, RunsAtWork, StateOf, HolderOf, WorkOf,
      Active, Abstract!Init
<1>2. IInv /\ [Next]_vars => [Abstract!Next]_(Abstract!vars)
  <2> SUFFICES ASSUME IInv, [Next]_vars PROVE [Abstract!Next]_(Abstract!vars)
    OBVIOUS
  <2>1. CASE UNCHANGED vars \/ SetProvisioningClaims
    BY <2>1, AbstractUnwritten DEF vars, SetProvisioningClaims, Abstract!vars
  <2>2. CASE RecoverStaleJobs
    BY <2>2, AbstractRecovery
  <2>3. CASE \E j \in Jobs : JobStep(j)
    BY <2>3, AbstractJobStep
  <2>4. CASE \E c \in Tokens : RunStep(c)
    BY <2>4, AbstractRunStep
  <2> QED
    BY <2>1, <2>2, <2>3, <2>4 DEF Next
<1> QED
  BY <1>1, <1>2, QueueInductive, PTL DEF Spec, ImplementsQueue, Abstract!Spec
=============================================================================
