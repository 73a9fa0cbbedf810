------------------------------ MODULE MCPodVM ------------------------------
(* The power state and the snapshots of a pod VM, which share no state, side  *)
(* by side: each behaviour is one of the one or of the other.                 *)
EXTENDS VMPower, VMSnapshots

VARIABLE aspect

PodVMInit ==
    /\ aspect \in {"power", "snapshots"} /\ PowerInit /\ SnapInit
    /\ aspect # "power" => testing

PowerStep == aspect = "power" /\ PowerNext /\ UNCHANGED <<aspect, snapVars>>
SnapStep == aspect = "snapshots" /\ SnapNext /\ UNCHANGED <<aspect, powerVars>>

\* The evaluator's and the sweep's tickers go on, time passes, workers take
\* jobs, and one that holds a job carries on with it.
PodVMSpec ==
    /\ PodVMInit
    /\ [][PowerStep \/ SnapStep]_<<aspect, powerVars, snapVars>>
    /\ WF_powerVars(aspect = "power" /\ EvaluateIdleVMs)
    /\ WF_powerVars(aspect = "power" /\ ClockRuns)
    /\ WF_powerVars(aspect = "power" /\ PowerJobStep)
    /\ WF_snapVars(aspect = "snapshots" /\ Sweep)
    /\ \A w \in SnapWorkers : /\ WF_snapVars(aspect = "snapshots" /\ SnapRun(w))
                              /\ WF_snapVars(aspect = "snapshots" /\ ClaimAnySnapJob(w))
=============================================================================
