------------------------ MODULE MCTemplateLifecycle ------------------------
(***************************************************************************)
(* TemplateLifecycle for TLC: VMs are interchangeable; nothing reads a job *)
(* that has ended or a VM that is gone, and of a job's cycle only whether  *)
(* it is the row's matters.                                                *)
(***************************************************************************)
EXTENDS TemplateLifecycle, TLC

Symmetry == Permutations(VMs) \cup Permutations(Admins)

ObservedJob(j) ==
    CASE job[j].st = "none" -> NoJob
      [] job[j].st = "ended" -> [NoJob EXCEPT !.st = "ended", !.clone = job[j].clone,
                                                 !.manual = job[j].clone /\ job[j].manual]
      [] OTHER -> [job[j] EXCEPT !.cycle = IF @ = row.cycle THEN 1 ELSE 0]

ObservedVM(v) == IF vm[v].st = "gone" THEN [vm[v] EXCEPT !.on = FALSE, !.old = FALSE] ELSE vm[v]

ObservedReq(a) == IF req[a].op = "idle" THEN NoReq ELSE [req[a] EXCEPT !.cycle = IF @ = row.cycle THEN 1 ELSE 0]

Observed == <<[row EXCEPT !.cycle = 0], [v \in VMs |-> ObservedVM(v)],
              [j \in Jobs |-> ObservedJob(j)], [a \in Admins |-> ObservedReq(a)], sweep, races>>

\* The properties of the passing run say what holds before the first race.
NoRace == races = {}
=============================================================================
