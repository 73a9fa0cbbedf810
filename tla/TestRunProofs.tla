--------------------------- MODULE TestRunProofs ---------------------------
(***************************************************************************)
(* A run is executed by one processor at a time, and never put back into    *)
(* the queue once something was written for it: proved of every step of     *)
(* the API, the engine, its watchdog and recovery, and the runners.         *)
(***************************************************************************)
EXTENDS TestRun, TLAPS

RunStates == ActiveRun \cup {"none", "ended"}
ResultStates == Open \cup {"none", "done"}
ProcRow == [at : {"idle", "claimed", "load", "start", "dispatch", "finalize",
                  "provision", "full", "fail"}, run : Runs \cup {0}]

Unwritten(r) == \A w \in Modes : results[r][w] = "none"

\* The type invariant, one conjunct per variable.
LEMMA TypeFlat ==
    TypeOK <=> /\ run \in [Runs -> RunStates] /\ results \in [Runs -> [Modes -> ResultStates]]
               /\ request \in [Runs -> {"none", "admitted", "created", "done"}]
               /\ proc \in [Procs -> ProcRow] /\ stale \subseteq Runs
               /\ up \in BOOLEAN /\ crashes \in 0 .. MaxCrashes
               /\ job \in [Runs -> Live \cup {"none", "gone"}]
               /\ runner \in [Runs -> {"acting", "judged", "reported"}]
BY DEF TypeOK, RunStates, ResultStates, ProcRow

\* The invariant holds at the start.
LEMMA InitKeeps == Init => IInv
<1> SUFFICES ASSUME Init PROVE IInv
  OBVIOUS
<1>1. Idle \in ProcRow /\ Idle.at = "idle" /\ Idle.run = 0
  BY DEF Idle, ProcRow
<1>2. TypeOK
  BY <1>1, TypeFlat, RunLimits DEF Init, RunStates, ResultStates
<1>3. \A p \in Procs : proc[p].at = "idle" /\ proc[p].run = 0
  BY <1>1 DEF Init
<1>4. NotYetInserted
  BY DEF Init, NotYetInserted
<1>5. HeldRuns
  BY <1>3 DEF HeldRuns
<1>6. ExecutedOnce
  BY <1>3 DEF ExecutedOnce, Init
<1> QED
  BY <1>2, <1>4, <1>5, <1>6 DEF IInv

\* A step of anybody but a processor: it ends runs that were inserted, and
\* writes results only where there are some.
LEMMA OutsideStep ==
    ASSUME IInv, TypeOK', UNCHANGED proc,
           \A r \in Runs : run'[r] = run[r] \/ (run[r] # "none" /\ run'[r] = "ended"),
           \A r \in Runs, w \in Modes : results[r][w] = "none" => results'[r][w] = "none",
           \A r \in Runs : request'[r] \in {"none", "admitted"} <=> request[r] \in {"none", "admitted"},
           \A r \in Runs : (job'[r] # "none" \/ r \in stale') => run[r] # "none"
    PROVE  IInv'
<1>1. NotYetInserted'
  BY DEF IInv, NotYetInserted
<1>2. HeldRuns'
  BY DEF IInv, HeldRuns
<1>3. ExecutedOnce'
  <2>1. \A r \in Runs : run'[r] = "pending" => \A w \in Modes : results'[r][w] = "none"
    BY DEF IInv, ExecutedOnce
  <2>2. \A p \in Procs : proc[p].at \in {"claimed", "load"} =>
           proc[p].run \in Runs /\ \A w \in Modes : results'[proc[p].run][w] = "none"
    BY DEF IInv, ExecutedOnce, HeldRuns, HasMode
  <2>3. \A p, q \in Procs : proc[p].at # "idle" /\ proc[p].run = proc[q].run => p = q
    BY DEF IInv, ExecutedOnce
  <2> QED
    BY <2>1, <2>2, <2>3 DEF ExecutedOnce, HasMode
<1> QED
  BY <1>1, <1>2, <1>3 DEF IInv

\* A step of a processor that has a run: it touches that run only.
LEMMA ProcessorStep ==
    ASSUME IInv, TypeOK', NEW p \in Procs, NEW r \in Runs, proc[p].at # "idle", proc[p].run = r,
           NEW row \in ProcRow, proc' = [proc EXCEPT ![p] = row],
           row.at = "idle" => row.run = 0, row.at # "idle" => row.run = r,
           UNCHANGED <<request, stale>>,
           \A q \in Runs \ {r} : run'[q] = run[q] /\ results'[q] = results[q] /\ job'[q] = job[q],
           run'[r] # "none",
           run'[r] = "pending" => row.at = "idle" /\ Unwritten(r)',
           row.at \in {"claimed", "load"} => Unwritten(r)',
           row.at \in {"dispatch", "finalize", "provision", "full"} => run'[r] \in {"running", "ended"}
    PROVE  IInv'
<1>1. proc \in [Procs -> ProcRow]
  BY TypeFlat DEF IInv
<1>2. \A q \in Procs : proc'[q] = IF q = p THEN row ELSE proc[q]
  BY <1>1
<1>3. run[r] # "none" /\ run[r] # "pending"
  BY DEF IInv, HeldRuns
<1>4. NotYetInserted'
  BY <1>3 DEF IInv, NotYetInserted
<1>5. \A q \in Procs \ {p} : proc[q].at # "idle" => proc[q].run # r
  BY DEF IInv, ExecutedOnce
<1>6. HeldRuns'
  BY <1>2, <1>5 DEF IInv, HeldRuns
<1>7. \A q \in Runs : run'[q] = "pending" => \A w \in Modes : results'[q][w] = "none"
  BY DEF IInv, ExecutedOnce, Unwritten
<1>8. \A q \in Procs : proc'[q].at \in {"claimed", "load"} => ~\E w \in Modes : results'[proc'[q].run][w] # "none"
  <2> SUFFICES ASSUME NEW q \in Procs, proc'[q].at \in {"claimed", "load"}, NEW w \in Modes
               PROVE  results'[proc'[q].run][w] = "none"
    OBVIOUS
  <2>1. CASE q = p
    BY <1>2, <2>1 DEF Unwritten
  <2>2. CASE q # p
    BY <1>2, <1>5, <2>2 DEF IInv, HeldRuns, ExecutedOnce, HasMode
  <2> QED
    BY <2>1, <2>2
<1>9. \A q, s \in Procs : proc'[q].at # "idle" /\ proc'[q].run = proc'[s].run => q = s
  <2>1. \A q \in Procs : proc[q].at = "idle" => proc[q].run = 0
    BY DEF IInv, HeldRuns
  <2>2. r # 0 /\ \A q \in Procs : proc[q].at # "idle" => proc[q].run # 0
    BY RunsOrdered DEF IInv, HeldRuns
  <2> QED
    BY <1>2, <1>5, <2>1, <2>2 DEF IInv, ExecutedOnce
<1> QED
  BY <1>4, <1>6, <1>7, <1>8, <1>9 DEF IInv, ExecutedOnce, HasMode

-----------------------------------------------------------------------------
(* The API, the watchdog, Kubernetes and the runners. *)

\* A run is inserted with its job.
LEMMA CreateTestingRunKeeps ==
    ASSUME IInv, NEW r \in Runs, CreateTestingRun(r) PROVE IInv'
<1>1. /\ request' = [request EXCEPT ![r] = "admitted"] /\ request[r] = "none"
      /\ UNCHANGED <<run, results, proc, stale, up, crashes, job, runner>>
  BY DEF CreateTestingRun, engineVars
<1>2. TypeOK'
  BY <1>1 DEF IInv, TypeOK
<1>3. \A q \in Runs : request'[q] \in {"none", "admitted"} <=> request[q] \in {"none", "admitted"}
  BY <1>1 DEF IInv, TypeOK
<1> QED
  BY <1>1, <1>2, <1>3, OutsideStep DEF IInv, NotYetInserted

\* The insert: the run is nobody's, and nothing was written for it.
LEMMA CreateRunKeeps ==
    ASSUME IInv, NEW r \in Runs, CreateRun(r) PROVE IInv'
<1>1. /\ request[r] = "admitted" /\ request' = [request EXCEPT ![r] = "created"]
      /\ run' = [run EXCEPT ![r] = "pending"]
      /\ UNCHANGED <<results, proc, stale, up, crashes, job, runner>>
  BY DEF CreateRun, engineVars, UpdateRunStatus
<1>2. TypeOK'
  BY <1>1 DEF IInv, TypeOK, ActiveRun
<1>3. run[r] = "none" /\ Unwritten(r)
  BY <1>1 DEF IInv, NotYetInserted, Unwritten
<1>4. \A q \in Runs : /\ run'[q] = IF q = r THEN "pending" ELSE run[q]
                      /\ request'[q] = IF q = r THEN "created" ELSE request[q]
  BY <1>1 DEF IInv, TypeOK
<1>5. \A p \in Procs : proc[p].at # "idle" => proc[p].run # r
  BY <1>3 DEF IInv, HeldRuns
<1>6. NotYetInserted'
  BY <1>1, <1>4 DEF IInv, NotYetInserted
<1>7. HeldRuns'
  BY <1>1, <1>4, <1>5 DEF IInv, HeldRuns
<1>8. ExecutedOnce'
  BY <1>1, <1>3, <1>4 DEF IInv, ExecutedOnce, HasMode, Unwritten
<1> QED
  BY <1>2, <1>6, <1>7, <1>8 DEF IInv

\* A run that was inserted ends, and nothing else is touched but what the step
\* may touch in any case.
LEMMA EndsRun ==
    ASSUME IInv, NEW r \in Runs, run[r] # "none", UpdateRunStatus(r, "ended") \/ UNCHANGED run
    PROVE  /\ run' \in [Runs -> RunStates]
           /\ \A q \in Runs : run'[q] = run[q] \/ (run[q] # "none" /\ run'[q] = "ended")
BY DEF IInv, TypeOK, UpdateRunStatus, RunStates

\* The run's address lease fails after the insert.
LEMMA LeaseRunnerIPKeeps ==
    ASSUME IInv, NEW r \in Runs, LeaseRunnerIP(r) PROVE IInv'
<1>1. /\ request[r] = "created" /\ request' = [request EXCEPT ![r] = "done"]
      /\ UpdateRunStatus(r, "ended") \/ UNCHANGED run
      /\ UNCHANGED <<results, proc, stale, up, crashes, job, runner>>
  BY DEF LeaseRunnerIP, engineVars
<1>2. run[r] # "none"
  BY <1>1 DEF IInv, NotYetInserted
<1>3. /\ run' \in [Runs -> RunStates]
      /\ \A q \in Runs : run'[q] = run[q] \/ (run[q] # "none" /\ run'[q] = "ended")
  BY <1>1, <1>2, EndsRun
<1>4. TypeOK'
  BY <1>1, <1>3 DEF IInv, TypeOK, RunStates
<1>5. \A q \in Runs : request'[q] \in {"none", "admitted"} <=> request[q] \in {"none", "admitted"}
  BY <1>1 DEF IInv, TypeOK
<1> QED
  BY <1>1, <1>3, <1>4, <1>5, OutsideStep DEF IInv, NotYetInserted

\* A user cancels a run.
LEMMA CancelTestingRunKeeps ==
    ASSUME IInv, NEW r \in Runs, CancelTestingRun(r) PROVE IInv'
<1>1. /\ run[r] # "none" /\ UpdateRunStatus(r, "ended")
      /\ UNCHANGED <<results, request, proc, stale, up, crashes, job, runner>>
  BY DEF CancelTestingRun, engineVars, ActiveRun
<1>2. /\ run' \in [Runs -> RunStates]
      /\ \A q \in Runs : run'[q] = run[q] \/ (run[q] # "none" /\ run'[q] = "ended")
  BY <1>1, EndsRun
<1>3. TypeOK'
  BY <1>1, <1>2 DEF IInv, TypeOK, RunStates
<1> QED
  BY <1>1, <1>2, <1>3, OutsideStep DEF IInv, NotYetInserted

\* The watchdog's list names runs that were claimed.
LEMMA FindTimedOutRunsKeeps == IInv /\ FindTimedOutRuns => IInv'
<1> SUFFICES ASSUME IInv, FindTimedOutRuns PROVE IInv'
  OBVIOUS
<1>1. /\ stale' = {r \in Runs : FindStaleRuns(r)}
      /\ UNCHANGED <<run, results, request, proc, up, crashes, job, runner>>
  BY DEF FindTimedOutRuns
<1>2. TypeOK'
  BY <1>1 DEF IInv, TypeOK
<1>3. \A r \in Runs : r \in stale' => run[r] # "none"
  BY <1>1 DEF FindStaleRuns
<1> QED
  BY <1>1, <1>2, <1>3, OutsideStep DEF IInv, NotYetInserted

\* Jobs are only ever deleted by a clean-up.
LEMMA CleanupRunnerOnly ==
    ASSUME IInv, NEW r \in Runs, CleanupRunner(r)
    PROVE  /\ job' \in [Runs -> Live \cup {"none", "gone"}]
           /\ \A q \in Runs : job'[q] # "none" => job[q] # "none"
<1>1. job \in [Runs -> Live \cup {"none", "gone"}]
  BY DEF IInv, TypeOK
<1>2. UNCHANGED job \/ (job[r] = "active" /\ job' = [job EXCEPT ![r] = "gone"])
  BY DEF CleanupRunner
<1> QED
  BY <1>1, <1>2

\* A run is timed out.
LEMMA CheckForTimeoutsKeeps ==
    ASSUME IInv, NEW r \in Runs, CheckForTimeouts(r) PROVE IInv'
<1>1. /\ r \in stale /\ stale' = stale \ {r} /\ CleanupRunner(r) /\ UpdateRunStatus(r, "ended")
      /\ results' = TimeoutPendingWorkflowResults(r)
      /\ UNCHANGED <<request, proc, up, crashes, runner>>
  BY DEF CheckForTimeouts
<1>2. run[r] # "none"
  BY <1>1 DEF IInv, NotYetInserted
<1>3. /\ run' \in [Runs -> RunStates]
      /\ \A q \in Runs : run'[q] = run[q] \/ (run[q] # "none" /\ run'[q] = "ended")
  BY <1>1, <1>2, EndsRun
<1>4. /\ results' \in [Runs -> [Modes -> ResultStates]]
      /\ \A q \in Runs, w \in Modes : results[q][w] = "none" => results'[q][w] = "none"
  <2>1. results \in [Runs -> [Modes -> ResultStates]]
    BY TypeFlat DEF IInv
  <2>2. PICK f : f = [w \in Modes |-> IF results[r][w] \in Open THEN "done" ELSE results[r][w]]
    OBVIOUS
  <2>3. f \in [Modes -> ResultStates] /\ \A w \in Modes : results[r][w] = "none" => f[w] = "none"
    BY <2>1, <2>2 DEF Open, ResultStates
  <2>4. results' = [results EXCEPT ![r] = f]
    BY <1>1, <2>2 DEF TimeoutPendingWorkflowResults
  <2> QED
    BY <2>1, <2>3, <2>4
<1>5. /\ job' \in [Runs -> Live \cup {"none", "gone"}]
      /\ \A q \in Runs : job'[q] # "none" => job[q] # "none"
  BY <1>1, CleanupRunnerOnly
<1>6. TypeOK'
  BY <1>1, <1>3, <1>4, <1>5 DEF IInv, TypeOK, RunStates, ResultStates
<1> QED
  BY <1>1, <1>3, <1>4, <1>5, <1>6, OutsideStep DEF IInv, NotYetInserted

\* A restarted engine fails what it left behind.
LEMMA RecoverStaleRunsKeeps == IInv /\ RecoverStaleRuns => IInv'
<1> SUFFICES ASSUME IInv, RecoverStaleRuns PROVE IInv'
  OBVIOUS
<1>1. UNCHANGED <<results, request, proc, stale, crashes, runner>> /\ up' = TRUE
  BY DEF RecoverStaleRuns
<1>2. PICK old \in SUBSET {r \in Runs : FindStaleRuns(r)} :
         /\ run' = [r \in Runs |-> IF r \in old THEN "ended" ELSE run[r]]
         /\ job' = [r \in Runs |-> IF r \in old /\ job[r] = "active" THEN "gone" ELSE job[r]]
  BY DEF RecoverStaleRuns
<1>3. \A r \in old : run[r] # "none"
  BY <1>2 DEF FindStaleRuns
<1>4. \A r \in Runs : run'[r] = run[r] \/ (run[r] # "none" /\ run'[r] = "ended")
  BY <1>2, <1>3
<1>5. \A r \in Runs : job'[r] # "none" => job[r] # "none"
  BY <1>2
<1>6. TypeOK'
  BY <1>1, <1>2 DEF IInv, TypeOK
<1> QED
  BY <1>1, <1>4, <1>5, <1>6, OutsideStep DEF IInv, NotYetInserted

\* The job of a run ends.
LEMMA JobEndsKeeps ==
    ASSUME IInv, NEW r \in Runs, JobEnds(r) PROVE IInv'
<1>1. /\ job[r] \in Live /\ job' = [job EXCEPT ![r] = "gone"]
      /\ UNCHANGED <<run, results, request, proc, stale, up, crashes, runner>>
  BY DEF JobEnds, engineVars
<1>2. TypeOK'
  BY <1>1 DEF IInv, TypeOK
<1>3. \A q \in Runs : job'[q] # "none" => job[q] # "none"
  BY <1>1 DEF IInv, TypeOK, Live
<1> QED
  BY <1>1, <1>2, <1>3, OutsideStep DEF IInv, NotYetInserted

\* A result is updated only where there is one.
LEMMA SlugOnly ==
    ASSUME IInv, NEW r \in Runs, NEW w \in Modes, NEW s \in ResultStates,
           UpdateWorkflowResultBySlug(r, w, s)
    PROVE  /\ results' \in [Runs -> [Modes -> ResultStates]]
           /\ \A q \in Runs, v \in Modes : results[q][v] = "none" => results'[q][v] = "none"
           /\ \A q \in Runs \ {r} : results'[q] = results[q]
<1>1. results \in [Runs -> [Modes -> ResultStates]]
  BY TypeFlat DEF IInv
<1>2. PICK t : t = IF results[r][w] = "none" THEN "none" ELSE s
  OBVIOUS
<1>3. t \in ResultStates /\ (results[r][w] = "none" => t = "none")
  BY <1>2 DEF ResultStates
<1>4. results' = [results EXCEPT ![r][w] = t]
  BY <1>2 DEF UpdateWorkflowResultBySlug
<1> QED
  BY <1>1, <1>3, <1>4

\* A post of a runner, answered or not.
LEMMA RunnerKeeps ==
    ASSUME IInv, NEW r \in Runs, Runner(r) PROVE IInv'
<1>1. /\ job[r] \in Live /\ UNCHANGED <<request, proc, stale, up, crashes>>
      /\ \E s \in {"acting", "judged", "reported"} : runner' = [runner EXCEPT ![r] = s]
  BY DEF Runner, ReportAction, ReportWorkflow, ReportComplete, Posts, engineVars
<1>2. run[r] # "none" /\ runner' \in [Runs -> {"acting", "judged", "reported"}]
  BY <1>1 DEF IInv, NotYetInserted, Live, TypeOK
<1>3. /\ results' \in [Runs -> [Modes -> ResultStates]]
      /\ \A q \in Runs, v \in Modes : results[q][v] = "none" => results'[q][v] = "none"
  <2>1. \/ UNCHANGED results
        \/ \E s \in {"running", "done"} : UpdateWorkflowResultBySlug(r, "kali", s)
    BY DEF Runner, ReportAction, ReportWorkflow, ReportComplete, HandleAction, HandleWorkflow,
       HandleComplete, AppendActionResult, Unanswered
  <2>2. "kali" \in Modes /\ {"running", "done"} \subseteq ResultStates
    BY DEF Modes, ResultStates, Open
  <2>3. CASE UNCHANGED results
    BY <2>3, TypeFlat DEF IInv
  <2>4. CASE \E s \in {"running", "done"} : UpdateWorkflowResultBySlug(r, "kali", s)
    BY <2>2, <2>4, SlugOnly
  <2> QED
    BY <2>1, <2>3, <2>4
<1>4. /\ run' \in [Runs -> RunStates]
      /\ \A q \in Runs : run'[q] = run[q] \/ (run[q] # "none" /\ run'[q] = "ended")
  <2>1. UpdateRunStatus(r, "ended") \/ UNCHANGED run
    BY DEF Runner, ReportAction, ReportWorkflow, ReportComplete, HandleAction, HandleWorkflow,
       HandleComplete, Unanswered
  <2> QED
    BY <1>2, <2>1, EndsRun
<1>5. /\ job' \in [Runs -> Live \cup {"none", "gone"}]
      /\ \A q \in Runs : job'[q] # "none" => job[q] # "none"
  <2>1. CleanupRunner(r) \/ UNCHANGED job
    BY DEF Runner, ReportAction, ReportWorkflow, ReportComplete, HandleAction, HandleWorkflow,
       HandleComplete, Unanswered
  <2> QED
    BY <2>1, CleanupRunnerOnly DEF IInv, TypeOK
<1>6. TypeOK'
  BY <1>1, <1>2, <1>3, <1>4, <1>5 DEF IInv, TypeOK, RunStates, ResultStates
<1> QED
  BY <1>1, <1>3, <1>4, <1>5, <1>6, OutsideStep DEF IInv, NotYetInserted

-----------------------------------------------------------------------------
(* The engine. *)

\* A processor takes a run that waits: nobody else has it, since what
\* somebody has is not in the queue.
LEMMA ClaimPendingRunKeeps ==
    ASSUME IInv, NEW p \in Procs, ClaimPendingRun(p) PROVE IInv'
<1>1. /\ proc[p].at = "idle" /\ UNCHANGED <<results, job, request, stale, up, crashes, runner>>
  BY DEF ClaimPendingRun, At, Quiet
<1>2. PICK r \in Runs : /\ run[r] = "pending" /\ run' = [run EXCEPT ![r] = "provisioning"]
                        /\ proc' = [proc EXCEPT ![p] = [at |-> "claimed", run |-> r]]
  BY DEF ClaimPendingRun, UpdateRunStatus
<1>3. run \in [Runs -> RunStates] /\ proc \in [Procs -> ProcRow]
  BY TypeFlat DEF IInv
<1>4. \A q \in Runs : run'[q] = IF q = r THEN "provisioning" ELSE run[q]
  BY <1>2, <1>3
<1>5. PICK row : row = [at |-> "claimed", run |-> r]
  OBVIOUS
<1>6. row \in ProcRow /\ row.at = "claimed" /\ row.run = r
  BY <1>5 DEF ProcRow
<1>7. \A q \in Procs : proc'[q] = IF q = p THEN row ELSE proc[q]
  BY <1>2, <1>3, <1>5
<1>8. TypeOK'
  <2>1. run' \in [Runs -> RunStates] /\ proc' \in [Procs -> ProcRow]
    BY <1>2, <1>3, <1>5, <1>6 DEF RunStates, ActiveRun
  <2> QED
    BY <1>1, <2>1 DEF IInv, TypeOK, RunStates, ProcRow
<1>9. \A q \in Procs : proc[q].at # "idle" => proc[q].run # r
  BY <1>2 DEF IInv, HeldRuns
<1>10. NotYetInserted'
  BY <1>1, <1>2, <1>4 DEF IInv, NotYetInserted
<1>11. HeldRuns'
  BY <1>4, <1>6, <1>7, <1>9 DEF IInv, HeldRuns
<1>12. \A w \in Modes : results[r][w] = "none"
  BY <1>2 DEF IInv, ExecutedOnce
<1>13. r # 0 /\ \A q \in Procs : proc[q].at = "idle" => proc[q].run = 0
  BY RunsOrdered DEF IInv, HeldRuns
<1>14. \A q, s \in Procs : proc'[q].at # "idle" /\ proc'[q].run = proc'[s].run => q = s
  BY <1>6, <1>7, <1>9, <1>13 DEF IInv, ExecutedOnce
<1>15. \A q \in Procs : proc'[q].at \in {"claimed", "load"} =>
          ~\E w \in Modes : results'[proc'[q].run][w] # "none"
  BY <1>1, <1>6, <1>7, <1>12 DEF IInv, ExecutedOnce, HasMode
<1>16. \A q \in Runs : run'[q] = "pending" => \A w \in Modes : results'[q][w] = "none"
  BY <1>1, <1>4 DEF IInv, ExecutedOnce
<1> QED
  BY <1>8, <1>10, <1>11, <1>14, <1>15, <1>16 DEF IInv, ExecutedOnce, HasMode

\* The run a processor has.
LEMMA HasRun ==
    ASSUME IInv, NEW p \in Procs, proc[p].at # "idle"
    PROVE  /\ proc[p].run \in Runs /\ run[proc[p].run] \notin {"none", "pending"}
           /\ proc[p].at \in {"dispatch", "finalize", "provision", "full"} =>
                 run[proc[p].run] \in {"running", "ended"}
           /\ proc[p].at \in {"claimed", "load"} => Unwritten(proc[p].run)
BY DEF IInv, HeldRuns, ExecutedOnce, Unwritten, HasMode

\* Where a processor goes next.
LEMMA GoesRow ==
    ASSUME IInv, NEW p \in Procs,
           NEW s \in {"load", "start", "dispatch", "finalize", "provision", "full", "fail"}, Goes(p, s)
    PROVE  \E row \in ProcRow : /\ proc' = [proc EXCEPT ![p] = row]
                                /\ row.at = s /\ row.run = proc[p].run
<1>1. proc \in [Procs -> ProcRow]
  BY TypeFlat DEF IInv
<1>2. PICK row : row = [proc[p] EXCEPT !.at = s]
  OBVIOUS
<1>3. row \in ProcRow /\ row.at = s /\ row.run = proc[p].run
  BY <1>1, <1>2 DEF ProcRow
<1>4. proc' = [proc EXCEPT ![p] = row]
  BY <1>1, <1>2 DEF Goes
<1> QED
  BY <1>3, <1>4

\* An engine process that returns is idle.
LEMMA ReturnsRow ==
    ASSUME NEW p \in Procs, Returns(p)
    PROVE  \E row \in ProcRow : proc' = [proc EXCEPT ![p] = row] /\ row.at = "idle" /\ row.run = 0
<1>1. Idle \in ProcRow /\ Idle.at = "idle" /\ Idle.run = 0
  BY DEF Idle, ProcRow
<1> QED
  BY <1>1 DEF Returns

\* What a processor's step leaves well typed.
LEMMA ProcessorTypes ==
    ASSUME IInv, NEW p \in Procs, NEW row \in ProcRow, proc' = [proc EXCEPT ![p] = row], Quiet,
           run' \in [Runs -> RunStates], results' \in [Runs -> [Modes -> ResultStates]],
           job' \in [Runs -> Live \cup {"none", "gone"}]
    PROVE  TypeOK' /\ UNCHANGED <<request, stale>>
<1>1. proc' \in [Procs -> ProcRow]
  BY TypeFlat DEF IInv
<1> QED
  BY <1>1 DEF Quiet, IInv, TypeOK, ProcRow, RunStates, ResultStates

\* A status written to one run.
LEMMA StatusOf ==
    ASSUME IInv, NEW r \in Runs, NEW s \in RunStates, run' = [run EXCEPT ![r] = s]
    PROVE  run' \in [Runs -> RunStates] /\ run'[r] = s /\ \A q \in Runs \ {r} : run'[q] = run[q]
BY TypeFlat DEF IInv

\* A run is put back into the queue only while it is merely claimed.
LEMMA RequeuedStatus ==
    ASSUME NEW p \in Procs, RequeueClaimedRun(p)
    PROVE  \E s \in {"pending", "ended"} : /\ run' = [run EXCEPT ![proc[p].run] = s]
                                           /\ s = "pending" => run[proc[p].run] = "provisioning"
<1>1. CASE run[proc[p].run] = "provisioning"
  BY <1>1 DEF RequeueClaimedRun, UpdateRunStatus
<1>2. CASE run[proc[p].run] # "provisioning"
  BY <1>2 DEF RequeueClaimedRun, UpdateRunStatus
<1> QED
  BY <1>1, <1>2

\* Capacity is checked.
LEMMA EnsureRunnerCapacityKeeps ==
    ASSUME IInv, NEW p \in Procs, EnsureRunnerCapacity(p) PROVE IInv'
<1>0. proc[p].at = "claimed" /\ UNCHANGED <<results, job>> /\ Quiet
  BY DEF EnsureRunnerCapacity, At
<1>1. PICK r \in Runs : r = proc[p].run
  BY <1>0, HasRun
<1>2. /\ run[r] # "none" /\ run[r] # "pending" /\ Unwritten(r) /\ Unwritten(r)'
      /\ run \in [Runs -> RunStates] /\ results' \in [Runs -> [Modes -> ResultStates]]
      /\ job' \in [Runs -> Live \cup {"none", "gone"}]
  BY <1>0, <1>1, HasRun, TypeFlat DEF IInv, Unwritten
<1>3. CASE RequeueClaimedRun(p) /\ Returns(p)
  <2>1. PICK s \in {"pending", "ended"} : run' = [run EXCEPT ![r] = s]
    BY <1>1, <1>3, RequeuedStatus
  <2>2. PICK row \in ProcRow : proc' = [proc EXCEPT ![p] = row] /\ row.at = "idle" /\ row.run = 0
    BY <1>3, ReturnsRow
  <2>3. run' \in [Runs -> RunStates] /\ run'[r] = s /\ \A q \in Runs \ {r} : run'[q] = run[q]
    <3>1. s \in RunStates
      BY DEF RunStates, ActiveRun
    <3> QED
      BY <2>1, <3>1, StatusOf
  <2>4. TypeOK' /\ UNCHANGED <<request, stale>>
    BY <1>0, <1>2, <2>2, <2>3, ProcessorTypes
  <2> QED
    BY <1>0, <1>1, <1>2, <2>2, <2>3, <2>4, ProcessorStep
<1>4. CASE Goes(p, "load") /\ UNCHANGED run
  <2>1. PICK row \in ProcRow : proc' = [proc EXCEPT ![p] = row] /\ row.at = "load" /\ row.run = r
    BY <1>1, <1>4, GoesRow
  <2>2. TypeOK' /\ UNCHANGED <<request, stale>>
    BY <1>0, <1>2, <1>4, <2>1, ProcessorTypes
  <2> QED
    BY <1>0, <1>1, <1>2, <1>4, <2>1, <2>2, ProcessorStep
<1> QED
  BY <1>3, <1>4 DEF EnsureRunnerCapacity

\* The workflows of the run are loaded.
LEMMA LoadWorkflowsKeeps ==
    ASSUME IInv, NEW p \in Procs, LoadWorkflows(p) PROVE IInv'
<1>0. proc[p].at = "load" /\ UNCHANGED <<run, job>> /\ Quiet
  BY DEF LoadWorkflows, At
<1>1. PICK r \in Runs : r = proc[p].run
  BY <1>0, HasRun
<1>2. /\ run[r] # "none" /\ run[r] # "pending" /\ run' \in [Runs -> RunStates]
      /\ results \in [Runs -> [Modes -> ResultStates]]
      /\ job' \in [Runs -> Live \cup {"none", "gone"}]
  BY <1>0, <1>1, HasRun, TypeFlat DEF IInv
<1>3. PICK active \in GetWorkflowsForPlaylist(r) : \E ws \in SUBSET active :
         InsertWorkflowResult(r, ws) /\ (Goes(p, "fail") \/ Goes(p, "start"))
  BY <1>1 DEF LoadWorkflows
<1>4. PICK ws \in SUBSET active : InsertWorkflowResult(r, ws) /\ (Goes(p, "fail") \/ Goes(p, "start"))
  BY <1>3
<1>5. results' \in [Runs -> [Modes -> ResultStates]] /\ \A q \in Runs \ {r} : results'[q] = results[q]
  <2>1. PICK f : f = [w \in Modes |-> IF w \in ws THEN "pending" ELSE results[r][w]]
    OBVIOUS
  <2>2. f \in [Modes -> ResultStates]
    BY <1>2, <2>1 DEF ResultStates, Open
  <2>3. results' = [results EXCEPT ![r] = f]
    BY <1>4, <2>1 DEF InsertWorkflowResult
  <2> QED
    BY <1>2, <2>2, <2>3
<1>6. PICK row \in ProcRow : /\ proc' = [proc EXCEPT ![p] = row] /\ row.run = r
                             /\ row.at \in {"fail", "start"}
  BY <1>1, <1>4, GoesRow
<1>7. TypeOK' /\ UNCHANGED <<request, stale>>
  BY <1>0, <1>2, <1>5, <1>6, ProcessorTypes
<1> QED
  BY <1>0, <1>1, <1>2, <1>5, <1>6, <1>7, ProcessorStep

\* The run starts if it is still pending.
LEMMA StartRunKeeps ==
    ASSUME IInv, NEW p \in Procs, StartRun(p) PROVE IInv'
<1>0. proc[p].at = "start" /\ UNCHANGED <<results, job>> /\ Quiet
  BY DEF StartRun, At
<1>1. PICK r \in Runs : r = proc[p].run
  BY <1>0, HasRun
<1>2. /\ results' \in [Runs -> [Modes -> ResultStates]]
      /\ job' \in [Runs -> Live \cup {"none", "gone"}]
  BY <1>0, TypeFlat DEF IInv
<1>3. run' \in [Runs -> RunStates] /\ run'[r] = "running" /\ \A q \in Runs \ {r} : run'[q] = run[q]
  <2>1. "running" \in RunStates /\ run' = [run EXCEPT ![r] = "running"]
    BY <1>1 DEF RunStates, ActiveRun, StartRun, UpdateRunStatus
  <2> QED
    BY <2>1, StatusOf
<1>4. Goes(p, "dispatch") \/ Goes(p, "provision")
  BY DEF StartRun
<1>5. PICK row \in ProcRow : /\ proc' = [proc EXCEPT ![p] = row] /\ row.run = r
                             /\ row.at \in {"dispatch", "provision"}
  BY <1>1, <1>4, GoesRow
<1>6. TypeOK' /\ UNCHANGED <<request, stale>>
  BY <1>0, <1>2, <1>3, <1>5, ProcessorTypes
<1> QED
  BY <1>0, <1>1, <1>3, <1>5, <1>6, ProcessorStep

\* A result is executed once, by the holder of its run.
LEMMA DispatchVMwareToolsKeeps ==
    ASSUME IInv, NEW p \in Procs, DispatchVMwareTools(p) PROVE IInv'
<1>0. proc[p].at = "dispatch" /\ UNCHANGED <<run, job>> /\ Quiet
  BY DEF DispatchVMwareTools, At
<1>1. PICK r \in Runs : r = proc[p].run
  BY <1>0, HasRun
<1>2. /\ run[r] \in {"running", "ended"} /\ run' \in [Runs -> RunStates]
      /\ job' \in [Runs -> Live \cup {"none", "gone"}]
  BY <1>0, <1>1, HasRun, TypeFlat DEF IInv
<1>3. results' \in [Runs -> [Modes -> ResultStates]] /\ \A q \in Runs \ {r} : results'[q] = results[q]
  <2>1. UpdateWorkflowResultBySlug(r, "tools", "done") \/ UNCHANGED results
    BY <1>1 DEF DispatchVMwareTools, Dispatch, ClassifyGuestResult
  <2>2. "tools" \in Modes /\ "done" \in ResultStates
    BY DEF Modes, ResultStates
  <2>3. CASE UNCHANGED results
    BY <2>3, TypeFlat DEF IInv
  <2> QED
    BY <2>1, <2>2, <2>3, SlugOnly
<1>4. Goes(p, "provision") \/ Goes(p, "finalize")
  BY DEF DispatchVMwareTools
<1>5. PICK row \in ProcRow : /\ proc' = [proc EXCEPT ![p] = row] /\ row.run = r
                             /\ row.at \in {"provision", "finalize"}
  BY <1>1, <1>4, GoesRow
<1>6. TypeOK' /\ UNCHANGED <<request, stale>>
  BY <1>0, <1>2, <1>3, <1>5, ProcessorTypes
<1> QED
  BY <1>0, <1>1, <1>2, <1>3, <1>5, <1>6, ProcessorStep

\* A processor that ends its run, or leaves it as it is, and returns.
LEMMA LetsGo ==
    ASSUME IInv, NEW p \in Procs, proc[p].at # "idle", Returns(p), Quiet, UNCHANGED <<results, job>>,
           UpdateRunStatus(proc[p].run, "ended") \/ UNCHANGED run
    PROVE  IInv'
<1>1. PICK r \in Runs : r = proc[p].run
  BY HasRun
<1>2. /\ run[r] # "none" /\ run[r] # "pending"
      /\ results' \in [Runs -> [Modes -> ResultStates]]
      /\ job' \in [Runs -> Live \cup {"none", "gone"}]
  BY <1>1, HasRun, TypeFlat DEF IInv
<1>3. run' \in [Runs -> RunStates] /\ run'[r] # "none" /\ run'[r] # "pending"
      /\ \A q \in Runs \ {r} : run'[q] = run[q]
  <2>1. CASE UNCHANGED run
    BY <1>2, <2>1, TypeFlat DEF IInv
  <2>2. CASE run' = [run EXCEPT ![r] = "ended"]
    <3>1. "ended" \in RunStates
      BY DEF RunStates
    <3> QED
      BY <2>2, <3>1, StatusOf
  <2> QED
    BY <1>1, <2>1, <2>2 DEF UpdateRunStatus
<1>4. PICK row \in ProcRow : proc' = [proc EXCEPT ![p] = row] /\ row.at = "idle" /\ row.run = 0
  BY ReturnsRow
<1>5. TypeOK' /\ UNCHANGED <<request, stale>>
  BY <1>2, <1>3, <1>4, ProcessorTypes
<1> QED
  BY <1>1, <1>3, <1>4, <1>5, ProcessorStep

\* The run is finalized from its counts.
LEMMA FinalizeRunKeeps ==
    ASSUME IInv, NEW p \in Procs, FinalizeRunFromCounts(p) PROVE IInv'
BY LetsGo DEF FinalizeRunFromCounts, At

\* The run fails.
LEMMA FailRunKeeps ==
    ASSUME IInv, NEW p \in Procs, FailRun(p) PROVE IInv'
BY LetsGo DEF FailRun, At

\* The run was started, so it is refused by the queue and ends.
LEMMA FullAfterStartKeeps ==
    ASSUME IInv, NEW p \in Procs, FullAfterStart(p) PROVE IInv'
<1>1. proc[p].at = "full" /\ Returns(p) /\ Quiet /\ UNCHANGED <<results, job>> /\ RequeueClaimedRun(p)
  BY DEF FullAfterStart, At
<1>2. run[proc[p].run] \in {"running", "ended"}
  BY <1>1, HasRun
<1>3. UpdateRunStatus(proc[p].run, "ended")
  BY <1>1, <1>2 DEF RequeueClaimedRun
<1> QED
  BY <1>1, <1>3, LetsGo

\* The runner's Secret and Job are created, or the run goes back.
LEMMA ProvisionRunnerKeeps ==
    ASSUME IInv, NEW p \in Procs, ProvisionRunner(p) PROVE IInv'
<1>0. proc[p].at = "provision" /\ UNCHANGED <<run, results>> /\ Quiet
  BY DEF ProvisionRunner, At
<1>1. PICK r \in Runs : r = proc[p].run
  BY <1>0, HasRun
<1>2. /\ run[r] \in {"running", "ended"} /\ run' \in [Runs -> RunStates]
      /\ results' \in [Runs -> [Modes -> ResultStates]]
      /\ job \in [Runs -> Live \cup {"none", "gone"}]
  BY <1>0, <1>1, HasRun, TypeFlat DEF IInv
<1>3. PICK row \in ProcRow : /\ proc' = [proc EXCEPT ![p] = row]
                             /\ \/ row.at \in {"fail", "full"} /\ row.run = r
                                \/ row.at = "idle" /\ row.run = 0
  <2>1. CASE Goes(p, "fail") \/ Goes(p, "full")
    BY <1>1, <2>1, GoesRow
  <2>2. CASE Returns(p)
    BY <2>2, ReturnsRow
  <2> QED
    BY <2>1, <2>2 DEF ProvisionRunner, Unresolved
<1>4. /\ job' \in [Runs -> Live \cup {"none", "gone"}]
      /\ \A q \in Runs \ {r} : job'[q] = job[q]
  <2>1. UNCHANGED job \/ \E j \in Live : job' = [job EXCEPT ![r] = j]
    BY <1>1 DEF ProvisionRunner, Unresolved, CreateRunnerJob
  <2> QED
    BY <1>2, <2>1
<1>5. TypeOK' /\ UNCHANGED <<request, stale>>
  BY <1>0, <1>2, <1>3, <1>4, ProcessorTypes
<1> QED
  BY <1>0, <1>1, <1>2, <1>3, <1>4, <1>5, ProcessorStep

\* The engine dies: all processors are gone, and their runs stay as they are.
LEMMA DiesKeeps ==
    ASSUME IInv, Dies, results' \in [Runs -> [Modes -> ResultStates]],
           \A r \in Runs, w \in Modes : results[r][w] = "none" => results'[r][w] = "none"
    PROVE  IInv'
<1>1. /\ proc' = [p \in Procs |-> Idle] /\ stale' = {} /\ up' = FALSE
      /\ crashes < MaxCrashes /\ crashes' = crashes + 1 /\ UNCHANGED <<run, request, job, runner>>
  BY DEF Dies
<1>2. Idle \in ProcRow /\ Idle.at = "idle" /\ Idle.run = 0
  BY DEF Idle, ProcRow
<1>3. crashes' \in 0 .. MaxCrashes
  BY <1>1, RunLimits DEF IInv, TypeOK
<1>4. proc' \in [Procs -> ProcRow] /\ \A p \in Procs : proc'[p].at = "idle" /\ proc'[p].run = 0
  BY <1>1, <1>2
<1>5. TypeOK'
  BY <1>1, <1>3, <1>4 DEF IInv, TypeOK, ProcRow, ResultStates
<1>6. NotYetInserted'
  BY <1>1 DEF IInv, NotYetInserted
<1>7. HeldRuns'
  BY <1>4 DEF HeldRuns
<1>8. ExecutedOnce'
  BY <1>1, <1>4 DEF IInv, ExecutedOnce
<1> QED
  BY <1>5, <1>6, <1>7, <1>8 DEF IInv

\* Every step keeps the invariant.
LEMMA StepKeeps == IInv /\ [Next]_vars => IInv'
<1> SUFFICES ASSUME IInv, [Next]_vars PROVE IInv'
  OBVIOUS
<1>1. ASSUME NEW r \in Runs, Client(r) PROVE IInv'
  BY <1>1, CreateTestingRunKeeps, CreateRunKeeps, LeaseRunnerIPKeeps, CancelTestingRunKeeps DEF Client
<1>2. ASSUME NEW p \in Procs, ExecuteRun(p) PROVE IInv'
  BY <1>2, ClaimPendingRunKeeps, EnsureRunnerCapacityKeeps, LoadWorkflowsKeeps, StartRunKeeps,
     DispatchVMwareToolsKeeps, FinalizeRunKeeps, ProvisionRunnerKeeps, FullAfterStartKeeps,
     FailRunKeeps DEF ExecuteRun
<1>3. ASSUME NEW p \in Procs, EngineShutdown(p) PROVE IInv'
  <2>1. Dies /\ UpdateWorkflowResultBySlug(proc[p].run, "tools", "done") /\ proc[p].at = "dispatch"
    BY <1>3 DEF EngineShutdown, RecordCancelled, At
  <2>2. proc[p].run \in Runs /\ "tools" \in Modes /\ "done" \in ResultStates
    BY <2>1, HasRun DEF Modes, ResultStates
  <2>3. /\ results' \in [Runs -> [Modes -> ResultStates]]
        /\ \A q \in Runs, v \in Modes : results[q][v] = "none" => results'[q][v] = "none"
    BY <2>1, <2>2, SlugOnly
  <2> QED
    BY <2>1, <2>3, DiesKeeps
<1>4. CASE EngineCrash
  <2>1. Dies /\ UNCHANGED results /\ results \in [Runs -> [Modes -> ResultStates]]
    BY <1>4, TypeFlat DEF EngineCrash, IInv
  <2> QED
    BY <2>1, DiesKeeps
<1>5. CASE UNCHANGED vars
  <2>1. UNCHANGED <<run, results, request, proc, stale, up, crashes, job, runner>>
    BY <1>5 DEF vars
  <2>2. TypeOK'
    BY <2>1 DEF IInv, TypeOK
  <2> QED
    BY <2>1, <2>2, OutsideStep DEF IInv, NotYetInserted
<1> QED
  BY <1>1, <1>2, <1>3, <1>4, <1>5, RunnerKeeps, CheckForTimeoutsKeeps, JobEndsKeeps,
     FindTimedOutRunsKeeps, RecoverStaleRunsKeeps DEF Next

\* The inductive invariant holds throughout, with any number of runs, of
\* processors and of crashes.
THEOREM RunInvariant == Spec => []IInv
BY InitKeeps, StepKeeps, PTL DEF Spec

\* No two processors execute one run, and a run that waits has no results.
THEOREM RunExecutedOnce == Spec => []ExecutedOnce
<1>1. IInv => ExecutedOnce
  BY DEF IInv
<1> QED
  BY <1>1, RunInvariant, PTL

=============================================================================
