--------------------------- MODULE ServicesProofs ---------------------------
(***************************************************************************)
(* Proofs about five services that share no state: the SafeSearch           *)
(* installer, the health of templates, the port groups of a pod, the        *)
(* placement of VMs and their snapshots.  Each has an inductive invariant   *)
(* at the end of its own module; here it is shown that every step keeps it, *)
(* for every value of the constants, and what follows from it.              *)
(***************************************************************************)
EXTENDS SafeSearch, TemplateHealth, PortGroups, Placement, VMSnapshots, FiniteSetTheorems, TLAPS

-----------------------------------------------------------------------------
(* The SafeSearch installer. *)

\* The installer starts with no backup and three files that agree.
LEMMA SSInitKeeps == SSInit => SSInv
BY FragmentsPositive, MaxSSFaultsNat
DEF SSInit, SSInv, SSTypeOK, LogMatches, FilesFollow, SafeSearchAtomic,
    Contents, NoBackup, AtDoor, Installing, Restoring

\* A step counts a fault or none.
LEMMA SSFaultsCount == SSInv /\ [SSNext]_ssVars => ssFaults' \in 0 .. MaxSSFaults
<1>1. [SSNext]_ssVars => SSFine \/ SSFault
  BY DEF SSNext, recoverInterruptedTransaction, CloseCommitted, PrepareBackup, WriteFragment,
     StageFragment, ActivateFragment, CommitBackup, CloseBackup, RestorePersistent, RestoreStaged,
     RestoreActivate, RestoreDone, InstallerDies, FirewallReboots, Command, ssVars, SSFine
<1> QED
  BY <1>1, MaxSSFaultsNat DEF SSFine, SSFault, SSInv, SSTypeOK

\* Each command, whether it works, fails with its effect or fails without,
\* each death and each reboot keeps the log and the files in step.
LEMMA SSStepKeeps == SSInv /\ [SSNext]_ssVars => SSInv'
<1> SUFFICES ASSUME SSInv, [SSNext]_ssVars PROVE SSInv'
  OBVIOUS
<1>f. ssFaults' \in 0 .. MaxSSFaults
  BY SSFaultsCount
<1>d. /\ AtDoor = [at |-> "idle", previous |-> 0, desired |-> 0, recovering |-> FALSE]
      /\ NoBackup = [phase |-> "none", previous |-> 0, desired |-> 0]
      /\ 0 \in Contents /\ Fragments \subseteq Contents
  BY DEF AtDoor, NoBackup, Contents
<1> USE <1>f, <1>d
    DEF SSInv, SSTypeOK, LogMatches, FilesFollow, SafeSearchAtomic, Installing, Restoring, files,
        InstallerTo, Leave
\* An installer that is gone is in step with any log.
<1>l. ASSUME installer' = AtDoor, SafeSearchAtomic',
             persistent' \in Contents, staged' \in Contents, unbound' \in Contents,
             \/ UNCHANGED backup
             \/ backup' = NoBackup
             \/ backup' = [phase |-> "prepared", previous |-> persistent, desired |-> installer.desired]
             \/ \E p \in {"prepared", "committed"} : backup' = [backup EXCEPT !.phase = p]
      PROVE  SSInv'
  BY <1>l
<1>1. CASE recoverInterruptedTransaction
  <2>1. PICK d \in Fragments : installer' = [AtDoor EXCEPT !.desired = d, !.recovering = TRUE,
             !.previous = IF backup.phase = "prepared" THEN backup.previous ELSE @,
             !.at = CASE backup.phase = "none" -> "snapshot"
                      [] backup.phase = "prepared" -> "restorePersistent"
                      [] backup.phase = "committed" -> "closeCommitted"]
    BY <1>1 DEF recoverInterruptedTransaction
  <2>2. UNCHANGED <<persistent, staged, unbound, backup>>
    BY <1>1 DEF recoverInterruptedTransaction
  <2>3. CASE backup.phase = "none"
    <3>1. installer' = [at |-> "snapshot", previous |-> 0, desired |-> d, recovering |-> TRUE]
      BY <2>1, <2>3
    <3> QED
      BY <2>2, <2>3, <3>1
  <2>4. CASE backup.phase = "prepared"
    <3>1. installer' = [at |-> "restorePersistent", previous |-> backup.previous, desired |-> d,
                        recovering |-> TRUE]
      BY <2>1, <2>4
    <3> QED
      BY <2>2, <2>4, <3>1
  <2>5. CASE backup.phase = "committed"
    <3>1. installer' = [at |-> "closeCommitted", previous |-> 0, desired |-> d, recovering |-> TRUE]
      BY <2>1, <2>5
    <3> QED
      BY <2>2, <2>5, <3>1
  <2> QED
    BY <2>3, <2>4, <2>5
<1>2. CASE CloseCommitted
  <2>1. /\ installer.at = "closeCommitted" /\ UNCHANGED <<persistent, staged, unbound>>
        /\ \/ backup' = NoBackup /\ installer' = [installer EXCEPT !.at = "snapshot"]
           \/ backup' \in {NoBackup, backup} /\ installer' = AtDoor
    BY <1>2 DEF CloseCommitted
  <2>2. CASE backup' = NoBackup /\ installer' = [installer EXCEPT !.at = "snapshot"]
    BY <2>1, <2>2
  <2>3. CASE backup' \in {NoBackup, backup} /\ installer' = AtDoor
    BY <2>1, <2>3, <1>l
  <2> QED
    BY <2>1, <2>2, <2>3
<1>3. CASE PrepareBackup
  <2> DEFINE log == [phase |-> "prepared", previous |-> persistent, desired |-> installer.desired]
  <2>1. /\ installer.at = "snapshot" /\ UNCHANGED <<persistent, staged, unbound>>
        /\ \/ backup' = log
              /\ installer' = [installer EXCEPT !.at = "write", !.previous = persistent,
                                                !.recovering = FALSE]
           \/ backup' \in {log, backup} /\ installer' = AtDoor
    BY <1>3 DEF PrepareBackup
  <2>2. CASE backup' = log /\ installer' = [installer EXCEPT !.at = "write", !.previous = persistent,
                                                             !.recovering = FALSE]
    <3>1. installer' = [at |-> "write", previous |-> persistent, desired |-> installer.desired,
                        recovering |-> FALSE]
      BY <2>2
    <3> QED
      BY <2>1, <2>2, <3>1
  <2>3. CASE backup' \in {log, backup} /\ installer' = AtDoor
    BY <2>1, <2>3, <1>l
  <2> QED
    BY <2>1, <2>2, <2>3
<1>4. CASE WriteFragment
  <2>1. /\ installer.at = "write" /\ UNCHANGED <<staged, unbound, backup>>
        /\ \/ persistent' = installer.desired /\ installer' = [installer EXCEPT !.at = "stage"]
           \/ persistent' \in {persistent, installer.desired} /\ installer' = [installer EXCEPT !.at = "restorePersistent"]
    BY <1>4 DEF WriteFragment, Command, StepFails, Installing, Restoring
  <2>2. CASE persistent' = installer.desired /\ installer' = [installer EXCEPT !.at = "stage"]
    BY <2>1, <2>2
  <2>3. CASE persistent' \in {persistent, installer.desired} /\ installer' = [installer EXCEPT !.at = "restorePersistent"]
    BY <2>1, <2>3
  <2> QED
    BY <2>1, <2>2, <2>3
<1>5. CASE StageFragment
  <2>1. /\ installer.at = "stage" /\ UNCHANGED <<persistent, unbound, backup>>
        /\ \/ staged' = persistent /\ installer' = [installer EXCEPT !.at = "activate"]
           \/ staged' \in {staged, persistent} /\ installer' = [installer EXCEPT !.at = "restorePersistent"]
    BY <1>5 DEF StageFragment, Command, StepFails, Installing, Restoring
  <2>2. CASE staged' = persistent /\ installer' = [installer EXCEPT !.at = "activate"]
    BY <2>1, <2>2
  <2>3. CASE staged' \in {staged, persistent} /\ installer' = [installer EXCEPT !.at = "restorePersistent"]
    BY <2>1, <2>3
  <2> QED
    BY <2>1, <2>2, <2>3
<1>6. CASE ActivateFragment
  <2>1. /\ installer.at = "activate" /\ UNCHANGED <<persistent, staged, backup>>
        /\ \/ unbound' = staged /\ installer' = [installer EXCEPT !.at = "commit"]
           \/ unbound' \in {unbound, staged} /\ installer' = [installer EXCEPT !.at = "restorePersistent"]
    BY <1>6 DEF ActivateFragment, Command, StepFails, Installing, Restoring
  <2>2. CASE unbound' = staged /\ installer' = [installer EXCEPT !.at = "commit"]
    BY <2>1, <2>2
  <2>3. CASE unbound' \in {unbound, staged} /\ installer' = [installer EXCEPT !.at = "restorePersistent"]
    BY <2>1, <2>3
  <2> QED
    BY <2>1, <2>2, <2>3
<1>7. CASE CommitBackup
  <2>1. PICK p \in {"prepared", "committed"} : backup' = [backup EXCEPT !.phase = p]
    BY <1>7 DEF CommitBackup
  <2>2. /\ installer.at = "commit" /\ UNCHANGED <<persistent, staged, unbound>>
        /\ \/ installer' = AtDoor
           \/ installer' = [installer EXCEPT !.at = "close"] /\ p = "committed"
           \/ installer' = [installer EXCEPT !.at = "restorePersistent"] /\ p = "prepared"
    BY <1>7, <2>1 DEF CommitBackup, CommitOutcome
  <2>3. /\ backup' \in [phase : {"prepared", "committed"}, previous : Contents, desired : Contents]
        /\ backup'.phase = p /\ backup'.previous = installer.previous
        /\ backup'.desired = installer.desired
    BY <2>1, <2>2
  <2>4. SafeSearchAtomic'
    BY <2>2, <2>3
  <2>5. CASE installer' = AtDoor
    BY <2>1, <2>2, <2>4, <2>5, <1>l
  <2>6. CASE installer' = [installer EXCEPT !.at = "close"] /\ p = "committed"
    BY <2>2, <2>3, <2>4, <2>6
  <2>7. CASE installer' = [installer EXCEPT !.at = "restorePersistent"] /\ p = "prepared"
    BY <2>2, <2>3, <2>4, <2>7
  <2> QED
    BY <2>2, <2>5, <2>6, <2>7
<1>8. CASE CloseBackup
  <2>1. /\ installer.at = "close" /\ UNCHANGED <<persistent, staged, unbound>>
        /\ backup' \in {NoBackup, backup} /\ installer' = AtDoor
    BY <1>8 DEF CloseBackup
  <2> QED
    BY <2>1, <1>l
<1>9. CASE RestorePersistent
  <2>1. /\ installer.at = "restorePersistent" /\ UNCHANGED <<staged, unbound, backup>>
        /\ \/ persistent' = installer.previous /\ installer' = [installer EXCEPT !.at = "restoreStaged"]
           \/ persistent' \in {persistent, installer.previous} /\ installer' = AtDoor
    BY <1>9 DEF RestorePersistent, Command, StepFails, Installing, Restoring
  <2>2. CASE persistent' = installer.previous /\ installer' = [installer EXCEPT !.at = "restoreStaged"]
    BY <2>1, <2>2
  <2>3. CASE persistent' \in {persistent, installer.previous} /\ installer' = AtDoor
    BY <2>1, <2>3, <1>l
  <2> QED
    BY <2>1, <2>2, <2>3
<1>10. CASE RestoreStaged
  <2>1. /\ installer.at = "restoreStaged" /\ UNCHANGED <<persistent, unbound, backup>>
        /\ \/ staged' = installer.previous /\ installer' = [installer EXCEPT !.at = "restoreActivate"]
           \/ staged' \in {staged, installer.previous} /\ installer' = AtDoor
    BY <1>10 DEF RestoreStaged, Command, StepFails, Installing, Restoring
  <2>2. CASE staged' = installer.previous /\ installer' = [installer EXCEPT !.at = "restoreActivate"]
    BY <2>1, <2>2
  <2>3. CASE staged' \in {staged, installer.previous} /\ installer' = AtDoor
    BY <2>1, <2>3, <1>l
  <2> QED
    BY <2>1, <2>2, <2>3
<1>11. CASE RestoreActivate
  <2>1. /\ installer.at = "restoreActivate" /\ UNCHANGED <<persistent, staged, backup>>
        /\ \/ unbound' = staged /\ installer' = [installer EXCEPT !.at = "restoreDone"]
           \/ unbound' \in {unbound, staged} /\ installer' = AtDoor
    BY <1>11 DEF RestoreActivate, Command, StepFails, Installing, Restoring
  <2>2. CASE unbound' = staged /\ installer' = [installer EXCEPT !.at = "restoreDone"]
    BY <2>1, <2>2
  <2>3. CASE unbound' \in {unbound, staged} /\ installer' = AtDoor
    BY <2>1, <2>3, <1>l
  <2> QED
    BY <2>1, <2>2, <2>3
<1>12. CASE RestoreDone
  <2>1. /\ installer.at = "restoreDone" /\ UNCHANGED <<persistent, staged, unbound>>
        /\ \/ backup' = NoBackup /\ installer' = [installer EXCEPT !.at = "snapshot"]
           \/ backup' \in {NoBackup, backup} /\ installer' = AtDoor
    BY <1>12 DEF RestoreDone
  <2>2. CASE backup' = NoBackup /\ installer' = [installer EXCEPT !.at = "snapshot"]
    BY <2>1, <2>2
  <2>3. CASE backup' \in {NoBackup, backup} /\ installer' = AtDoor
    BY <2>1, <2>3, <1>l
  <2> QED
    BY <2>1, <2>2, <2>3
<1>13. CASE InstallerDies
  BY <1>13, <1>l DEF InstallerDies
<1>14. CASE FirewallReboots
  BY <1>14 DEF FirewallReboots
<1>15. CASE UNCHANGED ssVars
  BY <1>15 DEF ssVars
<1> QED
  BY <1>1, <1>2, <1>3, <1>4, <1>5, <1>6, <1>7, <1>8, <1>9, <1>10, <1>11, <1>12, <1>13, <1>14,
     <1>15 DEF SSNext

\* The installer keeps its inductive invariant, whatever fails.
THEOREM SafeSearchInvariant == SSSpec => []SSInv
BY SSInitKeeps, SSStepKeeps, PTL DEF SSSpec

\* The installation of the SafeSearch fragment is all or nothing.
THEOREM SafeSearchIsAtomic == SSSpec => []SafeSearchAtomic
<1>1. SSInv => SafeSearchAtomic
  BY DEF SSInv
<1> QED
  BY <1>1, SafeSearchInvariant, PTL

-----------------------------------------------------------------------------
(* The health of a template. *)

CycleRow == [at : {"idle", "structural", "between", "deep", "ensure"},
             verdict : Verdict, read : HealthRow, stale : BOOLEAN]
ConfirmStates == {"none", "pending", "checking", "completed", "failed"}

\* The row before and after, for a write that keeps what the row means.
RowSound(r, s) ==
    /\ r.status = "unhealthy" <=> r.structural = 2 \/ r.deep = 2
    /\ r.deep = 0 <=> s = 0
    /\ r.deep = 2 => s = 2
    /\ r.pending # 0 => r.deep = 1

\* A template starts unchecked.
LEMMA HealthInitKeeps == HealthInit => HealthInv
<1> SUFFICES ASSUME HealthInit PROVE HealthInv
  OBVIOUS
<1>1. Unchecked \in HealthRow /\ NoCycle \in CycleRow /\ NoCycle.at = "idle"
  BY HealthBounds DEF Unchecked, NoCycle, HealthRow, CycleRow, Verdict
<1>2. HealthTypeOK
  BY <1>1, HealthBounds DEF HealthInit, HealthTypeOK, CycleRow, Tokens
<1>3. FreshCopies
  BY <1>1 DEF HealthInit, FreshCopies
<1>4. PendingIsFirst /\ HealthVerdictSound
  BY DEF HealthInit, PendingIsFirst, HealthVerdictSound, Unchecked
<1> QED
  BY <1>2, <1>3, <1>4 DEF HealthInv

\* The invariant in terms of the row.
LEMMA HealthFlat ==
    HealthInv <=> /\ visible \in BOOLEAN /\ health \in HealthRow /\ tokens \in 0 .. MaxToken
                  /\ cycle \in [Checkers -> CycleRow] /\ confirm \in [Tokens -> ConfirmStates]
                  /\ repair \in 0 .. MaxToken /\ outages \in 0 .. MaxOutages /\ streak \in 0 .. 2
                  /\ FreshCopies /\ RowSound(health, streak)
BY
DEF HealthInv, HealthTypeOK, PendingIsFirst, HealthVerdictSound, RowSound, CycleRow, ConfirmStates

\* Every copy that is being worked on becomes old, and nothing else changes.
LEMMA OutdateRows ==
    ASSUME cycle \in [Checkers -> CycleRow]
    PROVE  /\ Outdate(cycle) \in [Checkers -> CycleRow]
           /\ \A d \in Checkers :
                 /\ Outdate(cycle)[d].at = cycle[d].at
                 /\ cycle[d].at \in {"structural", "deep"} => Outdate(cycle)[d].stale
<1> DEFINE b(d) == cycle[d].at \in {"structural", "deep"}
           old(d) == [cycle[d] EXCEPT !.stale = b(d)]
<1>1. Outdate(cycle) = [d \in Checkers |-> old(d)]
  BY DEF Outdate
<1>2. \A d \in Checkers : b(d) \in BOOLEAN
  OBVIOUS
<1> HIDE DEF b
<1>3. \A d \in Checkers : old(d) \in CycleRow /\ old(d).at = cycle[d].at /\ old(d).stale = b(d)
  BY <1>2 DEF CycleRow
<1> HIDE DEF old
<1>4. \A d \in Checkers : Outdate(cycle)[d] = old(d)
  BY <1>1
<1>5. Outdate(cycle) \in [Checkers -> CycleRow]
  BY <1>1, <1>3
<1>6. \A d \in Checkers : Outdate(cycle)[d].at = cycle[d].at /\ Outdate(cycle)[d].stale = b(d)
  BY <1>3, <1>4
<1> QED
  BY <1>5, <1>6 DEF b

\* A write of the row makes every copy that is being worked on old, and sends
\* its writer on to a place where it holds none.
LEMMA WriteOutdates ==
    ASSUME cycle \in [Checkers -> CycleRow], NEW c \in Checkers, NEW next \in CycleRow,
           next.at \notin {"structural", "deep"}, cycle' = [Outdate(cycle) EXCEPT ![c] = next]
    PROVE  cycle' \in [Checkers -> CycleRow] /\ FreshCopies'
BY OutdateRows DEF FreshCopies

\* The same for a writer that is no checker.
LEMMA ConfirmOutdates ==
    ASSUME cycle \in [Checkers -> CycleRow], cycle' = Outdate(cycle)
    PROVE  cycle' \in [Checkers -> CycleRow] /\ FreshCopies'
BY OutdateRows DEF FreshCopies

\* A checker that takes a place with a fresh copy, or with none, while the row
\* stays as it is.
LEMMA MoveKeepsCopies ==
    ASSUME cycle \in [Checkers -> CycleRow], FreshCopies, NEW c \in Checkers, NEW next \in CycleRow,
           next.at \in {"structural", "deep"} => next.read = health,
           cycle' = [cycle EXCEPT ![c] = next], UNCHANGED health
    PROVE  cycle' \in [Checkers -> CycleRow] /\ FreshCopies'
BY DEF FreshCopies

\* What refreshTemplateHealthAggregate does to a row.
LEMMA RefreshRow ==
    ASSUME NEW r \in HealthRow
    PROVE  LET f == refreshTemplateHealthAggregate(r)
           IN  /\ f \in HealthRow
               /\ f.structural = r.structural /\ f.deep = r.deep /\ f.pending = r.pending
               /\ f.lastStructural = r.lastStructural /\ f.lastDeep = r.lastDeep
               /\ (r.structural = 2 \/ r.deep = 2) => f.status = "unhealthy"
               /\ (r.structural # 2 /\ r.deep # 2) =>
                     f.status = IF "pass" \in {r.lastStructural, r.lastDeep} THEN "healthy" ELSE r.status
<1> DEFINE st == CASE r.structural >= 2 \/ r.deep >= 2 -> "unhealthy"
                   [] r.structural < 2 /\ r.deep < 2 /\ "pass" \in {r.lastStructural, r.lastDeep} -> "healthy"
                   [] OTHER -> r.status
<1>1. r.structural \in 0 .. 2 /\ r.deep \in 0 .. 2 /\ r.status \in {"unknown", "healthy", "unhealthy"}
  BY DEF HealthRow
<1>2. /\ st \in {"unknown", "healthy", "unhealthy"}
      /\ (r.structural = 2 \/ r.deep = 2) => st = "unhealthy"
      /\ (r.structural # 2 /\ r.deep # 2) =>
            st = IF "pass" \in {r.lastStructural, r.lastDeep} THEN "healthy" ELSE r.status
  BY <1>1
<1>3. refreshTemplateHealthAggregate(r) = [r EXCEPT !.status = st]
  BY DEF refreshTemplateHealthAggregate
<1> HIDE DEF st
<1> QED
  BY <1>2, <1>3 DEF HealthRow

\* A structural verdict on a sound row leaves a sound one.
LEMMA StructuralRow ==
    ASSUME NEW r \in HealthRow, NEW s, RowSound(r, s), NEW v \in Verdict,
           NEW new, new = [r EXCEPT !.lastStructural = v,
                                    !.structural = IF v = "pass" THEN 0
                                                   ELSE IF @ = 2 THEN 2 ELSE @ + 1]
    PROVE  /\ refreshTemplateHealthAggregate(new) \in HealthRow
           /\ RowSound(refreshTemplateHealthAggregate(new), s)
<1> DEFINE n == IF v = "pass" THEN 0 ELSE IF r.structural = 2 THEN 2 ELSE r.structural + 1
<1>1. n \in 0 .. 2 /\ (r.structural = 2 /\ n # 2 => v = "pass")
  BY DEF HealthRow
<1>2. new = [r EXCEPT !.lastStructural = v, !.structural = n]
  OBVIOUS
<1> HIDE DEF n
<1>3. /\ new \in HealthRow /\ new.structural = n /\ new.lastStructural = v
      /\ new.deep = r.deep /\ new.pending = r.pending /\ new.status = r.status
  BY <1>1, <1>2 DEF HealthRow
<1>4. PICK f : f = refreshTemplateHealthAggregate(new)
  OBVIOUS
<1>5. /\ f \in HealthRow /\ f.structural = n /\ f.deep = r.deep /\ f.pending = r.pending
      /\ (n = 2 \/ r.deep = 2) => f.status = "unhealthy"
      /\ (n # 2 /\ r.deep # 2) => f.status = IF "pass" \in {v, new.lastDeep} THEN "healthy" ELSE r.status
  BY <1>3, <1>4, RefreshRow, Zenon
<1>6. f.status = "unhealthy" <=> n = 2 \/ r.deep = 2
  BY <1>1, <1>5 DEF RowSound
<1>7. RowSound(f, s)
  BY <1>5, <1>6 DEF RowSound
<1> QED
  BY <1>4, <1>5, <1>7

\* A deep verdict on a sound row leaves a sound one, and a failure more, or none.
LEMMA DeepRow ==
    ASSUME NEW r \in HealthRow, NEW s \in 0 .. 2, RowSound(r, s), NEW v \in Verdict,
           NEW t, NEW asks \in BOOLEAN, asks => r.deep < 2 /\ t \in 1 .. MaxToken,
           NEW new, new = [r EXCEPT !.lastDeep = v,
                                    !.deep = IF v = "pass" THEN 0 ELSE IF @ < 2 THEN 1 ELSE @,
                                    !.pending = IF v = "pass" THEN 0 ELSE IF asks THEN t ELSE @],
           NEW n, n = IF v = "pass" THEN 0 ELSE IF s = 2 THEN 2 ELSE s + 1
    PROVE  /\ new \in HealthRow /\ refreshTemplateHealthAggregate(new) \in HealthRow
           /\ n \in 0 .. 2 /\ RowSound(refreshTemplateHealthAggregate(new), n)
<1> DEFINE d == IF v = "pass" THEN 0 ELSE IF r.deep < 2 THEN 1 ELSE r.deep
           p == IF v = "pass" THEN 0 ELSE IF asks THEN t ELSE r.pending
<1>0. r.deep \in 0 .. 2 /\ r.pending \in 0 .. MaxToken
  BY DEF HealthRow
<1>1. /\ d \in 0 .. 2 /\ p \in 0 .. MaxToken /\ n \in 0 .. 2
      /\ (r.deep = 2 /\ d # 2 => v = "pass") /\ (r.deep # 2 => d # 2)
      /\ (p # 0 => d = 1) /\ (d = 0 <=> n = 0) /\ (d = 2 => n = 2)
  BY <1>0, HealthBounds DEF RowSound
<1>2. new = [r EXCEPT !.lastDeep = v, !.deep = d, !.pending = p]
  OBVIOUS
<1> HIDE DEF d, p
<1>3. /\ new \in HealthRow /\ new.deep = d /\ new.lastDeep = v
      /\ new.structural = r.structural /\ new.pending = p /\ new.status = r.status
  BY <1>1, <1>2 DEF HealthRow
<1> QED
  BY ZenonT(60), <1>1, <1>3, RefreshRow DEF RowSound

\* The second opinion on a sound row that waits for it leaves a sound one.
LEMMA ConfirmRow ==
    ASSUME NEW r \in HealthRow, NEW s \in 0 .. 2, RowSound(r, s), r.pending # 0, NEW pass \in BOOLEAN,
           NEW new, new = [r EXCEPT !.deep = IF pass THEN 0 ELSE 2, !.pending = 0,
                                    !.lastDeep = IF pass THEN "pass" ELSE "fail",
                                    !.status = IF ~pass \/ r.structural >= 2
                                               THEN "unhealthy" ELSE "healthy"],
           NEW n, n = IF pass THEN 0 ELSE IF s = 2 THEN 2 ELSE s + 1
    PROVE  new \in HealthRow /\ n \in 0 .. 2 /\ RowSound(new, n)
<1>0. r.structural \in 0 .. 2 /\ 0 \in 0 .. MaxToken
  BY HealthBounds DEF HealthRow
<1> DEFINE d == IF pass THEN 0 ELSE 2
           v == IF pass THEN "pass" ELSE "fail"
           st == IF ~pass \/ r.structural >= 2 THEN "unhealthy" ELSE "healthy"
<1>1. /\ d \in 0 .. 2 /\ v \in Verdict /\ st \in {"unknown", "healthy", "unhealthy"}
      /\ (st = "unhealthy" <=> (r.structural = 2 \/ d = 2))
  BY <1>0 DEF Verdict
<1>2. n \in 0 .. 2 /\ (d = 0 <=> n = 0) /\ (d = 2 => n = 2)
  <2>1. s \in 1 .. 2
    BY DEF RowSound
  <2> QED
    BY <2>1
<1>3. new = [r EXCEPT !.deep = d, !.pending = 0, !.lastDeep = v, !.status = st]
  OBVIOUS
<1> HIDE DEF d, v, st
<1>4. /\ new \in HealthRow /\ new.deep = d /\ new.pending = 0 /\ new.status = st
      /\ new.structural = r.structural
  BY <1>0, <1>1, <1>3 DEF HealthRow
<1> QED
  BY <1>1, <1>2, <1>4 DEF RowSound

\* Every step of a cycle, of a confirmation and of the ticker keeps the row
\* sound and the copies honest.
LEMMA HealthStepKeeps == HealthInv /\ [HealthNext]_healthVars => HealthInv'
<1> SUFFICES ASSUME HealthInv, [HealthNext]_healthVars PROVE HealthInv'
  OBVIOUS
<1>0. /\ visible \in BOOLEAN /\ health \in HealthRow /\ tokens \in 0 .. MaxToken
      /\ cycle \in [Checkers -> CycleRow] /\ confirm \in [Tokens -> ConfirmStates]
      /\ repair \in 0 .. MaxToken /\ outages \in 0 .. MaxOutages /\ streak \in 0 .. 2
      /\ FreshCopies /\ RowSound(health, streak)
  BY HealthFlat
<1>g. ASSUME visible' \in BOOLEAN, health' \in HealthRow, tokens' \in 0 .. MaxToken,
             cycle' \in [Checkers -> CycleRow], confirm' \in [Tokens -> ConfirmStates],
             repair' \in 0 .. MaxToken, outages' \in 0 .. MaxOutages, streak' \in 0 .. 2,
             FreshCopies', RowSound(health', streak')
      PROVE  HealthInv'
  BY <1>g DEF HealthInv, HealthTypeOK, PendingIsFirst, HealthVerdictSound, RowSound, CycleRow,
     ConfirmStates
<1>n. NoCycle \in CycleRow /\ NoCycle.at = "idle"
  BY HealthBounds DEF NoCycle, Unchecked, CycleRow, HealthRow, Verdict
\* A checker moves and the row stays.
<1>a. ASSUME NEW c \in Checkers, NEW next \in CycleRow, cycle' = [cycle EXCEPT ![c] = next],
             next.at \in {"structural", "deep"} => next.read = health,
             UNCHANGED <<visible, health, tokens, confirm, repair, outages, streak>>
      PROVE  HealthInv'
  <2>1. cycle' \in [Checkers -> CycleRow] /\ FreshCopies'
    BY <1>0, <1>a, MoveKeepsCopies
  <2> QED
    BY <1>0, <1>a, <1>g, <2>1
\* Jobs and bookkeeping move, the row and the copies stay.
<1>b. ASSUME UNCHANGED <<health, cycle, streak>>, visible' \in BOOLEAN, tokens' \in 0 .. MaxToken,
             confirm' \in [Tokens -> ConfirmStates], repair' \in 0 .. MaxToken,
             outages' \in 0 .. MaxOutages
      PROVE  HealthInv'
  <2>1. FreshCopies'
    BY <1>0, <1>b DEF FreshCopies
  <2> QED
    BY <1>0, <1>b, <1>g, <2>1
\* The confirmation of a token is scheduled.
<1>j. ASSUME NEW t \in 0 .. MaxToken, CreateTemplateHealthConfirmationJob(t)
      PROVE  confirm' \in [Tokens -> ConfirmStates]
  <2>1. PICK s \in {"pending", confirm[t]} : confirm' = [confirm EXCEPT ![t] = s]
    BY <1>j DEF CreateTemplateHealthConfirmationJob
  <2> QED
    BY <1>0, <2>1 DEF ConfirmStates
<1>1. ASSUME NEW c \in Checkers, StructuralCheck(c) PROVE HealthInv'
  <2>1. PICK v \in {"pass", "fail"} : cycle' = [cycle EXCEPT ![c] =
            [at |-> "structural", verdict |-> v, read |-> health, stale |-> FALSE]]
    BY <1>1 DEF StructuralCheck
  <2>2. PICK next \in CycleRow :
            next = [at |-> "structural", verdict |-> v, read |-> health, stale |-> FALSE]
    BY <1>0 DEF CycleRow, Verdict
  <2> QED
    BY <1>1, <2>1, <2>2, <1>a DEF StructuralCheck
<1>2. ASSUME NEW c \in Checkers, RecordStructural(c) PROVE HealthInv'
  <2>1. PICK r \in HealthRow, v \in Verdict : r = cycle[c].read /\ v = cycle[c].verdict
    BY <1>0 DEF CycleRow
  <2>2. PICK new : new = [r EXCEPT !.lastStructural = v,
                                   !.structural = IF v = "pass" THEN 0
                                                  ELSE IF @ = 2 THEN 2 ELSE @ + 1]
    OBVIOUS
  <2>3. PICK next \in CycleRow : next = [NoCycle EXCEPT !.at = "between"] /\ next.at = "between"
    <3>1. [NoCycle EXCEPT !.at = "between"] \in CycleRow
          /\ [NoCycle EXCEPT !.at = "between"].at = "between"
      BY <1>n DEF CycleRow
    <3> QED
      BY <3>1
  <2>4. mutateTemplateHealthState(c, new, next)
    BY <1>2, <2>1, <2>2, <2>3 DEF RecordStructural
  <2>5. /\ ~cycle[c].stale /\ cycle[c].at = "structural"
        /\ health' = refreshTemplateHealthAggregate(new)
        /\ cycle' = [Outdate(cycle) EXCEPT ![c] = next]
        /\ UNCHANGED <<visible, tokens, confirm, repair, outages, streak>>
    BY <1>2, <2>4
    DEF RecordStructural, mutateTemplateHealthState, CompareAndSwapTemplateHealthState
  <2>6. r = health
    BY <1>0, <2>1, <2>5 DEF FreshCopies
  <2>7. health' \in HealthRow /\ RowSound(health', streak)
    BY <1>0, <2>2, <2>5, <2>6, StructuralRow
  <2>8. cycle' \in [Checkers -> CycleRow] /\ FreshCopies'
    BY <1>0, <2>3, <2>5, WriteOutdates
  <2> QED
    BY <1>0, <1>g, <2>5, <2>7, <2>8
<1>3. ASSUME NEW c \in Checkers, runDeepCheck(c) PROVE HealthInv'
  <2>1. CASE cycle' = [cycle EXCEPT ![c] = NoCycle]
    BY <1>3, <2>1, <1>n, <1>a DEF runDeepCheck
  <2>2. CASE \E v \in {"pass", "fail"} : cycle' = [cycle EXCEPT ![c] =
                [at |-> "deep", verdict |-> v, read |-> health, stale |-> FALSE]]
    <3>1. PICK v \in {"pass", "fail"} : cycle' = [cycle EXCEPT ![c] =
              [at |-> "deep", verdict |-> v, read |-> health, stale |-> FALSE]]
      BY <2>2
    <3>2. PICK next \in CycleRow :
              next = [at |-> "deep", verdict |-> v, read |-> health, stale |-> FALSE]
      BY <1>0 DEF CycleRow, Verdict
    <3> QED
      BY <1>3, <3>1, <3>2, <1>a DEF runDeepCheck
  <2> QED
    BY <1>3, <2>1, <2>2 DEF runDeepCheck
<1>4. ASSUME NEW c \in Checkers, RecordDeep(c) PROVE HealthInv'
  <2>1. PICK r \in HealthRow, v \in Verdict : r = cycle[c].read /\ v = cycle[c].verdict
    BY <1>0 DEF CycleRow
  <2>2. PICK asks \in BOOLEAN : asks = (~(v = "pass") /\ r.deep < 2 /\ r.pending = 0)
    OBVIOUS
  <2>3. PICK t \in 1 .. MaxToken + 1 : t = tokens + 1
    BY <1>0, HealthBounds
  <2>4. PICK new : new = [r EXCEPT !.lastDeep = v,
                                   !.deep = IF v = "pass" THEN 0 ELSE IF @ < 2 THEN 1 ELSE @,
                                   !.pending = IF v = "pass" THEN 0 ELSE IF asks THEN t ELSE @]
    OBVIOUS
  <2>5. PICK next : next = IF new.pending = 0 THEN NoCycle
                           ELSE [NoCycle EXCEPT !.at = "ensure", !.read = new]
    OBVIOUS
  <2>6. /\ asks => tokens < MaxToken
        /\ mutateTemplateHealthState(c, new, next)
        /\ tokens' = IF asks THEN tokens + 1 ELSE tokens
        /\ streak' = IF v = "pass" THEN 0 ELSE IF streak = 2 THEN 2 ELSE streak + 1
        /\ cycle[c].at = "deep" /\ UNCHANGED <<visible, confirm, repair, outages>>
    BY <1>4, <2>1, <2>2, <2>3, <2>4, <2>5 DEF RecordDeep
  <2>7. /\ ~cycle[c].stale /\ health' = refreshTemplateHealthAggregate(new)
        /\ cycle' = [Outdate(cycle) EXCEPT ![c] = next]
    BY <2>6 DEF mutateTemplateHealthState, CompareAndSwapTemplateHealthState
  <2>8. r = health
    BY <1>0, <2>1, <2>6, <2>7 DEF FreshCopies
  <2>9. new \in HealthRow /\ health' \in HealthRow /\ streak' \in 0 .. 2 /\ RowSound(health', streak')
    <3>1. asks => r.deep < 2 /\ t \in 1 .. MaxToken
      <4>1. asks => r.deep < 2
        BY <2>2
      <4>2. tokens < MaxToken => t \in 1 .. MaxToken
        BY <1>0, <2>3, HealthBounds
      <4> QED
        BY <2>6, <4>1, <4>2
    <3>2. RowSound(r, streak)
      BY <1>0, <2>8
    <3>3. PICK s \in 0 .. 2 : s = streak
      BY <1>0
    <3>4. PICK n : n = IF v = "pass" THEN 0 ELSE IF s = 2 THEN 2 ELSE s + 1
      OBVIOUS
    <3>5. /\ new \in HealthRow /\ refreshTemplateHealthAggregate(new) \in HealthRow
          /\ n \in 0 .. 2 /\ RowSound(refreshTemplateHealthAggregate(new), n)
      BY ZenonT(60), <2>4, <3>1, <3>2, <3>3, <3>4, DeepRow
    <3> QED
      BY <2>6, <2>7, <3>3, <3>4, <3>5
  <2>10. next \in CycleRow /\ next.at \notin {"structural", "deep"}
    BY <1>n, <2>5, <2>9 DEF CycleRow
  <2>11. cycle' \in [Checkers -> CycleRow] /\ FreshCopies'
    BY <1>0, <2>7, <2>10, WriteOutdates
  <2>12. tokens' \in 0 .. MaxToken
    BY <1>0, <2>6, HealthBounds
  <2> QED
    BY <1>0, <1>g, <2>6, <2>9, <2>11, <2>12
<1>5. ASSUME NEW c \in Checkers, RetryMutate(c) PROVE HealthInv'
  <2>1. CASE cycle' = [cycle EXCEPT ![c] = NoCycle]
    BY <1>5, <2>1, <1>n, <1>a DEF RetryMutate
  <2>2. CASE cycle' = [cycle EXCEPT ![c].read = health, ![c].stale = FALSE]
    <3>1. PICK next \in CycleRow : next = [cycle[c] EXCEPT !.read = health, !.stale = FALSE]
                                   /\ next.read = health
      <4>1. [cycle[c] EXCEPT !.read = health, !.stale = FALSE] \in CycleRow
            /\ [cycle[c] EXCEPT !.read = health, !.stale = FALSE].read = health
        BY <1>0 DEF CycleRow
      <4> QED
        BY <4>1
    <3>2. cycle' = [cycle EXCEPT ![c] = next]
      BY <1>0, <2>2, <3>1 DEF CycleRow
    <3> QED
      BY <1>5, <3>1, <3>2, <1>a DEF RetryMutate
  <2> QED
    BY <1>5, <2>1, <2>2 DEF RetryMutate
<1>6. ASSUME NEW c \in Checkers, ensureTemplateHealthConfirmation(c) PROVE HealthInv'
  <2>1. PICK t \in 0 .. MaxToken : t = cycle[c].read.pending
    BY <1>0 DEF CycleRow, HealthRow
  <2>2. confirm' \in [Tokens -> ConfirmStates]
    BY <1>6, <1>j, <2>1 DEF ensureTemplateHealthConfirmation
  <2>3. /\ cycle' = [cycle EXCEPT ![c] = NoCycle]
        /\ UNCHANGED <<visible, health, tokens, repair, outages, streak>>
    BY <1>6 DEF ensureTemplateHealthConfirmation
  <2>4. cycle' \in [Checkers -> CycleRow] /\ FreshCopies'
    BY <1>0, <1>n, <2>3, MoveKeepsCopies
  <2> QED
    BY <1>0, <1>g, <2>2, <2>3, <2>4
<1>7. ASSUME NEW c \in Checkers, CycleEnds(c) PROVE HealthInv'
  BY <1>7, <1>n, <1>a DEF CycleEnds
<1>8. ASSUME NEW t \in Tokens, confirmTemplateHealth(t) PROVE HealthInv'
  <2>1. confirm' \in [Tokens -> ConfirmStates]
    BY <1>0, <1>8 DEF confirmTemplateHealth, ConfirmIs, ConfirmStates
  <2>2. UNCHANGED <<visible, tokens, repair, outages, streak>>
    BY <1>8 DEF confirmTemplateHealth
  <2>3. CASE UNCHANGED <<health, cycle>>
    BY <1>0, <1>b, <2>1, <2>2, <2>3
  <2>4. CASE health' = [health EXCEPT !.pending = 0] /\ cycle' = Outdate(cycle)
    <3>1. health' \in HealthRow /\ RowSound(health', streak)
      BY <1>0, <2>4, HealthBounds DEF HealthRow, RowSound
    <3>2. cycle' \in [Checkers -> CycleRow] /\ FreshCopies'
      BY <1>0, <2>4, ConfirmOutdates
    <3> QED
      BY <1>0, <1>g, <2>1, <2>2, <3>1, <3>2
  <2> QED
    BY <1>8, <2>3, <2>4 DEF confirmTemplateHealth, ClearTemplateHealthDeepPending
<1>9. ASSUME NEW t \in Tokens, ApplyTemplateHealthDeepConfirmation(t) PROVE HealthInv'
  <2>1. confirm' \in [Tokens -> ConfirmStates]
    BY <1>0, <1>9 DEF ApplyTemplateHealthDeepConfirmation, ConfirmIs, ConfirmStates
  <2>2. UNCHANGED <<visible, tokens, repair, outages>>
    BY <1>9 DEF ApplyTemplateHealthDeepConfirmation
  <2>3. CASE UNCHANGED <<health, cycle, streak>>
    BY <1>0, <1>b, <2>1, <2>2, <2>3
  <2>4. CASE health.pending = t /\ ~UNCHANGED <<health, cycle, streak>>
    <3>1. PICK pass \in BOOLEAN :
             /\ health' = [health EXCEPT !.deep = IF pass THEN 0 ELSE 2, !.pending = 0,
                                         !.lastDeep = IF pass THEN "pass" ELSE "fail",
                                         !.status = IF ~pass \/ health.structural >= 2
                                                    THEN "unhealthy" ELSE "healthy"]
             /\ streak' = IF pass THEN 0 ELSE IF streak = 2 THEN 2 ELSE streak + 1
      BY <1>9, <2>4 DEF ApplyTemplateHealthDeepConfirmation
    <3>2. cycle' = Outdate(cycle)
      BY <1>9, <2>4 DEF ApplyTemplateHealthDeepConfirmation
    <3>3. health.pending # 0
      BY <2>4, HealthBounds DEF Tokens
    <3>4. health' \in HealthRow /\ streak' \in 0 .. 2 /\ RowSound(health', streak')
      <4>1. health \in HealthRow /\ streak \in 0 .. 2 /\ RowSound(health, streak)
        BY <1>0
      <4>2. PICK new, n : new = health' /\ n = streak'
        OBVIOUS
      <4>3. new \in HealthRow /\ n \in 0 .. 2 /\ RowSound(new, n)
        BY ZenonT(60), <3>1, <3>3, <4>1, <4>2, ConfirmRow
      <4> QED BY <4>2, <4>3
    <3>5. cycle' \in [Checkers -> CycleRow] /\ FreshCopies'
      BY <1>0, <3>2, ConfirmOutdates
    <3> QED
      BY <1>0, <1>g, <2>1, <2>2, <3>4, <3>5
  <2> QED
    BY <1>9, <2>3, <2>4 DEF ApplyTemplateHealthDeepConfirmation
<1>10. ASSUME NEW t \in Tokens, ConfirmationFails(t) PROVE HealthInv'
  <2>1. confirm' \in [Tokens -> ConfirmStates]
    BY <1>0, <1>10 DEF ConfirmationFails, ConfirmIs, ConfirmStates
  <2>2. outages' \in 0 .. MaxOutages
    BY <1>0, <1>10, HealthBounds DEF ConfirmationFails
  <2> QED
    BY <1>0, <1>10, <1>b, <2>1, <2>2 DEF ConfirmationFails
<1>11. CASE reconcileTemplateHealthConfirmations
  <2>1. repair' \in 0 .. MaxToken
    BY <1>0, <1>11 DEF reconcileTemplateHealthConfirmations, HealthRow
  <2> QED
    BY <1>0, <1>11, <1>b, <2>1 DEF reconcileTemplateHealthConfirmations
<1>12. CASE RepairConfirmation
  <2>1. confirm' \in [Tokens -> ConfirmStates]
    BY <1>0, <1>12, <1>j DEF RepairConfirmation
  <2>2. repair' \in 0 .. MaxToken
    BY <1>12, HealthBounds DEF RepairConfirmation
  <2> QED
    BY <1>0, <1>12, <1>b, <2>1, <2>2 DEF RepairConfirmation
<1>13. CASE ToggleVisible
  BY <1>0, <1>13, <1>b DEF ToggleVisible
<1>14. CASE UNCHANGED healthVars
  BY <1>0, <1>14, <1>b DEF healthVars
<1> QED
  BY <1>1, <1>2, <1>3, <1>4, <1>5, <1>6, <1>7, <1>8, <1>9, <1>10, <1>11, <1>12, <1>13, <1>14
  DEF HealthNext, RunConfirmation, RepairConfirmations

\* The health checks keep their inductive invariant.
THEOREM HealthInvariant == HealthSpec => []HealthInv
BY HealthInitKeeps, HealthStepKeeps, PTL DEF HealthSpec

\* What the row says of a template is what its checks saw, whoever writes it
\* in whatever order from however old a copy.
THEOREM HealthIsSound == HealthSpec => []HealthVerdictSound
<1>1. HealthInv => HealthVerdictSound
  BY DEF HealthInv
<1> QED
  BY <1>1, HealthInvariant, PTL

-----------------------------------------------------------------------------
(* The port groups of a pod. *)

ReceiptRow == [state : ReceiptStates, preexisting : SUBSET Switches, keys : Keys]
SeenRow == [state : ReceiptStates, keys : Keys]
ActorRow == [at : {"rest", "made"} \cup Creating \cup Cleaning,
             todo : SUBSET Switches, created : SUBSET Switches, seen : SeenRow]

\* The types of everything but the actors.
PlacesOK ==
    /\ group \in Keys /\ lastKey \in Keys /\ predating \subseteq Switches
    /\ receipt \in ReceiptRow /\ claim \in Actors /\ mutex \in Actors \cup {NoActor}
    /\ rollingBack \in BOOLEAN /\ pgFaults \in 0 .. MaxPGFaults

\* The types, places and actors apart.
LEMMA PGTypeFlat == PGTypeOK <=> PlacesOK /\ actor \in [Actors -> ActorRow]
BY DEF PGTypeOK, PlacesOK, ReceiptRow, ActorRow, SeenRow

\* The row of an actor at rest.
LEMMA RestRow == AtRest \in ActorRow /\ AtRest.at = "rest" /\ NoKeys \in Keys
                 /\ AtRest.todo = {} /\ AtRest.created = {}
<1>1. NoKeys \in Keys
  BY PGBounds DEF NoKeys, Keys
<1> QED
  BY <1>1 DEF AtRest, ActorRow, SeenRow, ReceiptStates

\* A pod starts with no receipt and the groups that were there.
LEMMA PGInitKeeps == PGInit => PGInv
<1> SUFFICES ASSUME PGInit PROVE PGInv
  OBVIOUS
<1>1. group \in Keys /\ (\A h \in Switches : Present(h) <=> h \in predating)
  BY PGBounds DEF PGInit, Keys, Present
<1>2. receipt \in ReceiptRow /\ receipt.state = "none"
  BY RestRow DEF PGInit, ReceiptRow, ReceiptStates
<1>3. PGTypeOK
  <2>1. actor \in [Actors -> ActorRow]
    BY RestRow DEF PGInit
  <2>2. claim \in Actors /\ mutex \in Actors \cup {NoActor}
    BY DEF PGInit, Actors
  <2>3. predating \subseteq Switches /\ rollingBack \in BOOLEAN
    BY DEF PGInit
  <2>4. lastKey \in Keys /\ pgFaults \in 0 .. MaxPGFaults
    BY <1>1, PGBounds DEF PGInit
  <2> QED
    BY <1>1, <1>2, <2>1, <2>2, <2>3, <2>4, PGTypeFlat DEF PlacesOK
<1>4. \A a \in Actors : actor[a].at = "rest"
  BY RestRow DEF PGInit
<1>5. CreatorsExclusive
  BY <1>4 DEF CreatorsExclusive, Creating, Cleaning
<1>6. ReceiptHonest
  BY <1>1, <1>2 DEF ReceiptHonest, PGInit
<1>7. ActorsInformed
  BY <1>4 DEF ActorsInformed, Creating
<1> QED
  BY <1>3, <1>5, <1>6, <1>7 DEF PGInv

\* Once the create job is closing nobody adds a group any more: a step of
\* somebody who cleans up may only take groups away.
LEMMA CleanupStep ==
    ASSUME PGInv, Closing, Closing', PlacesOK', NEW a \in Actors, NEW act \in ActorRow,
           act.at \notin Creating, actor' = [actor EXCEPT ![a] = act], UNCHANGED predating,
           \A h \in Switches : Present(h)' => Present(h),
           \A h \in predating : Present(h)',
           receipt'.state # "none" => receipt'.preexisting = predating,
           receipt.state \in {"planned", "removed"} => receipt'.state \in {"planned", "removed"},
           receipt'.state \in {"none", "planned", "removed"} =>
              \A h \in Switches \ predating : ~Present(h)',
           receipt.state # "none" \/ act.at = "delete" => receipt'.state # "none",
           act.at = "close" /\ act.seen.state = "planned" => receipt'.state \in {"planned", "removed"},
           act.at = "mark" => \A h \in Switches \ predating : ~Present(h)'
    PROVE  PGInv'
<1>1. actor \in [Actors -> ActorRow]
  BY PGTypeFlat DEF PGInv
<1>2. actor' \in [Actors -> ActorRow] /\ \A b \in Actors : actor'[b] = IF b = a THEN act ELSE actor[b]
  BY <1>1
<1>3. \A b \in Actors : actor'[b].at \notin Creating
  BY <1>2 DEF PGInv, CreatorsExclusive
<1>4. PGTypeOK'
  BY <1>2 DEF PGTypeOK, PlacesOK, ReceiptRow, ActorRow, SeenRow
<1>5. CreatorsExclusive'
  BY <1>3 DEF CreatorsExclusive
<1>6. ReceiptHonest'
  BY DEF ReceiptHonest
<1>7. ActorsInformed'
  BY <1>2, <1>3 DEF ActorsInformed, PGInv, Creating
<1> QED
  BY <1>4, <1>5, <1>6, <1>7 DEF PGInv

\* A worker in the create step is alone: nobody else changes the switches and
\* nobody cleans up.
LEMMA CreatorAlone ==
    ASSUME PGInv, NEW a \in Actors, actor[a].at \in Creating
    PROVE  /\ mutex = a /\ ~Closing
           /\ \A b \in Actors \ {a} : /\ actor[b].at \in {"rest", "made"}
                                      /\ actor[b].at = "made" => claim # b
<1>1. actor \in [Actors -> ActorRow]
  BY PGTypeFlat DEF PGInv
<1>2. \A b \in Actors : actor[b].at \in {"rest", "made"} \cup Creating \cup Cleaning
  BY <1>1 DEF ActorRow
<1> QED
  BY <1>2 DEF PGInv, CreatorsExclusive

\* A step of such a worker: it goes on under the lock, or leaves it.
LEMMA CreatorStep ==
    ASSUME PGInv, PlacesOK', NEW a \in Actors, actor[a].at \in Creating, NEW act \in ActorRow,
           actor' = [actor EXCEPT ![a] = act], UNCHANGED <<claim, predating>>,
           act.at \in Creating => mutex' = a /\ ~rollingBack',
           act.at \in Cleaning => rollingBack' /\ act.at = "undo",
           \A h \in predating : Present(h)',
           receipt'.state # "none" => receipt'.preexisting = predating,
           receipt'.state # "removed",
           receipt'.state \in {"none", "planned"} => \A h \in Switches \ predating : ~Present(h)',
           act.at \in Creating => act.created \subseteq Switches \ predating,
           act.at = "apply" => /\ receipt'.state \in {"applying", "active"}
                               /\ act.todo \subseteq Switches \ predating
    PROVE  PGInv'
<1>1. actor \in [Actors -> ActorRow]
  BY PGTypeFlat DEF PGInv
<1>2. actor' \in [Actors -> ActorRow] /\ \A b \in Actors : actor'[b] = IF b = a THEN act ELSE actor[b]
  BY <1>1
<1>3. claim # Destroyer
  BY CreatorAlone DEF Closing
<1>4. PGTypeOK'
  BY <1>2 DEF PGTypeOK, PlacesOK, ReceiptRow, ActorRow, SeenRow
<1>5. \A b \in Actors \ {a} : /\ actor'[b].at \in {"rest", "made"}
                              /\ actor'[b].at = "made" => claim # b
  BY <1>2, CreatorAlone
<1>6. Closing' <=> rollingBack'
  BY <1>3 DEF Closing
<1>7. act.at \in Creating => act.at # "made" /\ act.at \notin Cleaning
  BY DEF Creating, Cleaning
<1>8. CreatorsExclusive'
  BY <1>2, <1>5, <1>6, <1>7 DEF CreatorsExclusive, Creating, Cleaning
<1>9. ReceiptHonest'
  BY DEF ReceiptHonest
<1>10. ActorsInformed'
  BY <1>2, <1>5 DEF ActorsInformed, Cleaning, Creating
<1> QED
  BY <1>4, <1>8, <1>9, <1>10 DEF PGInv

\* CreatePod's step starts, under the lock or to undo an earlier attempt.
LEMMA StartPortGroupsKeeps ==
    ASSUME PGInv, NEW a \in CreateWorkers, StartPortGroups(a)
    PROVE  PGInv'
<1>0. a \in Actors /\ a # NoActor /\ actor[a].at = "rest" /\ claim = a /\ a # Destroyer
      /\ UNCHANGED <<group, lastKey, predating, receipt, claim, rollingBack, pgFaults>>
  BY WorkersNamed DEF StartPortGroups, Actors, switchVars, claimVars
<1>1. PlacesOK /\ actor \in [Actors -> ActorRow]
  BY PGTypeFlat DEF PGInv
<1>2. CASE rollingBack
  <2>1. actor' = [actor EXCEPT ![a].at = "undo"] /\ mutex' = mutex
    BY <1>2 DEF StartPortGroups, GoTo
  <2>2. PICK act \in ActorRow : act = [actor[a] EXCEPT !.at = "undo"] /\ act.at = "undo"
    <3>1. [actor[a] EXCEPT !.at = "undo"] \in ActorRow /\ [actor[a] EXCEPT !.at = "undo"].at = "undo"
      BY <1>0, <1>1 DEF ActorRow, Cleaning
    <3> QED
      BY <3>1
  <2>3. actor' = [actor EXCEPT ![a] = act]
    BY <1>0, <1>1, <2>1, <2>2
  <2>4. PlacesOK'
    BY <1>0, <1>1, <2>1 DEF PlacesOK
  <2>5. Closing /\ Closing' /\ (\A h \in Switches : Present(h)' <=> Present(h))
    BY <1>0, <1>2 DEF Closing, Present
  <2>6. act.at \notin Creating
    BY <2>2 DEF Creating
  <2>7. predating \subseteq Switches
    BY <1>1 DEF PlacesOK
  <2> QED
    BY <1>0, <2>2, <2>3, <2>4, <2>5, <2>6, <2>7, CleanupStep DEF PGInv, ReceiptHonest
<1>3. CASE ~rollingBack
  <2>1. mutex = NoActor /\ mutex' = a
    BY <1>3 DEF StartPortGroups, PGLock
  <2>2. PICK act : act = [AtRest EXCEPT !.at = "plan", !.seen = GetPodPortGroupReceipt]
    OBVIOUS
  <2>3. actor' = [actor EXCEPT ![a] = act]
    BY <1>3, <2>2 DEF StartPortGroups
  <2>4. act \in ActorRow /\ act.at = "plan" /\ act.created = {}
    <3>1. GetPodPortGroupReceipt \in SeenRow
      BY <1>1 DEF GetPodPortGroupReceipt, SeenRow, PlacesOK, ReceiptRow
    <3> QED
      BY <2>2, <3>1, RestRow DEF ActorRow, Creating
  <2>5. actor' \in [Actors -> ActorRow] /\ \A b \in Actors : actor'[b] = IF b = a THEN act ELSE actor[b]
    BY <1>1, <2>3, <2>4
  <2>6. ~Closing /\ ~Closing' /\ (\A h \in Switches : Present(h)' <=> Present(h))
    BY <1>0, <1>3 DEF Closing, Present
  <2>7. PlacesOK'
    BY <1>0, <1>1, <2>1 DEF PlacesOK
  <2>8. PGTypeOK'
    BY <2>5, <2>7 DEF PGTypeOK, PlacesOK, ReceiptRow, ActorRow, SeenRow
  <2>9. \A b \in Actors \ {a} : actor'[b].at \in {"rest", "made"}
    <3>1. \A b \in Actors : actor[b].at \in {"rest", "made"} \cup Creating \cup Cleaning
      BY <1>1 DEF ActorRow
    <3>2. NoActor \notin Actors
      BY WorkersNamed DEF Actors, Destroyer, NoActor
    <3> QED
      BY <2>1, <2>5, <2>6, <3>1, <3>2 DEF PGInv, CreatorsExclusive
  <2>10. CreatorsExclusive'
    BY <1>0, <2>1, <2>4, <2>5, <2>6, <2>9 DEF CreatorsExclusive, Creating, Cleaning
  <2>11. predating \subseteq Switches
    BY <1>1 DEF PlacesOK
  <2>12. ReceiptHonest'
    BY <1>0, <2>6, <2>11 DEF PGInv, ReceiptHonest
  <2>13. ActorsInformed'
    BY <2>4, <2>5, <2>9 DEF ActorsInformed, Creating
  <2> QED
    BY <2>8, <2>10, <2>12, <2>13 DEF PGInv
<1> QED
  BY <1>2, <1>3

\* A step fails: a worker that has the claim goes to undo it, one that lost it
\* stops.
LEMMA FailRow ==
    ASSUME PGInv, NEW a \in Actors, FailCreate(a)
    PROVE  \E act \in ActorRow :
              /\ actor' = [actor EXCEPT ![a] = act] /\ UNCHANGED <<claim, pgFaults>>
              /\ \/ act.at = "undo" /\ rollingBack' = TRUE /\ claim = a
                 \/ act.at = "rest" /\ UNCHANGED rollingBack /\ claim # a
<1>1. actor \in [Actors -> ActorRow]
  BY PGTypeFlat DEF PGInv
<1>2. UNCHANGED <<claim, pgFaults>>
  BY DEF FailCreate
<1>3. CASE claim = a
  <2>1. [actor[a] EXCEPT !.at = "undo"] \in ActorRow /\ [actor[a] EXCEPT !.at = "undo"].at = "undo"
    BY <1>1 DEF ActorRow, Cleaning
  <2>2. actor' = [actor EXCEPT ![a] = [actor[a] EXCEPT !.at = "undo"]] /\ rollingBack' = TRUE
    BY <1>1, <1>3 DEF FailCreate, GoTo
  <2> QED
    BY <1>2, <1>3, <2>1, <2>2
<1>4. CASE claim # a
  BY <1>2, <1>4, RestRow DEF FailCreate
<1> QED
  BY <1>3, <1>4

\* A create step that fails while it changes nothing but groups of the pod.
LEMMA FailStep ==
    ASSUME PGInv, NEW a \in Actors, actor[a].at \in Creating, FailPortGroups(a),
           group' \in Keys, UNCHANGED <<lastKey, predating, receipt>>,
           \A h \in Switches : Present(h)' => Present(h), \A h \in predating : Present(h)'
    PROVE  PGInv'
<1>1. PICK act \in ActorRow :
         /\ actor' = [actor EXCEPT ![a] = act] /\ UNCHANGED <<claim, pgFaults>>
         /\ \/ act.at = "undo" /\ rollingBack' = TRUE /\ claim = a
            \/ act.at = "rest" /\ UNCHANGED rollingBack /\ claim # a
  BY FailRow DEF FailPortGroups
<1>2. PlacesOK /\ mutex' = NoActor
  BY PGTypeFlat DEF PGInv, FailPortGroups
<1>3. PlacesOK'
  BY <1>1, <1>2 DEF PlacesOK
<1>4. ~Closing
  BY CreatorAlone
<1>5. receipt.state # "removed"
  BY <1>4 DEF PGInv, ReceiptHonest
<1>6. act.at \notin Creating /\ (act.at \in Cleaning => act.at = "undo") /\ act.at # "apply"
  BY <1>1 DEF Creating, Cleaning
<1>7. act.at \in Cleaning => rollingBack'
  BY <1>1 DEF Cleaning
<1> QED
  BY <1>1, <1>3, <1>5, <1>6, <1>7, CreatorStep DEF PGInv, ReceiptHonest

\* A worker that moves on inside the create step, and keeps the rest of its row.
LEMMA GoRow ==
    ASSUME PGInv, NEW a \in Actors, NEW s \in {"rest", "made"} \cup Creating \cup Cleaning, GoTo(a, s)
    PROVE  \E act \in ActorRow : /\ actor' = [actor EXCEPT ![a] = act] /\ act.at = s
                                 /\ act.todo = actor[a].todo /\ act.created = actor[a].created
                                 /\ act.seen = actor[a].seen
<1>1. actor \in [Actors -> ActorRow]
  BY PGTypeFlat DEF PGInv
<1>2. PICK act : act = [actor[a] EXCEPT !.at = s]
  OBVIOUS
<1>3. act \in ActorRow /\ act.at = s /\ act.todo = actor[a].todo /\ act.created = actor[a].created
      /\ act.seen = actor[a].seen
  BY <1>1, <1>2 DEF ActorRow
<1>4. actor' = [actor EXCEPT ![a] = act]
  BY <1>1, <1>2 DEF GoTo
<1> QED
  BY <1>3, <1>4

\* A receipt is planned where there is none.
LEMMA PlanPortGroupsKeeps ==
    ASSUME PGInv, NEW a \in CreateWorkers, PlanPortGroups(a)
    PROVE  PGInv'
<1>0. a \in Actors /\ actor[a].at = "plan" /\ actor[a].at \in Creating
      /\ UNCHANGED <<group, lastKey, predating>>
  BY DEF PlanPortGroups, Actors, switchVars, Creating
<1>1. PlacesOK /\ group' \in Keys /\ predating \subseteq Switches
  BY <1>0, PGTypeFlat DEF PGInv, PlacesOK
<1>2. \A h \in Switches : Present(h)' <=> Present(h)
  BY <1>0 DEF Present
<1>3. mutex = a /\ ~Closing /\ receipt.state # "removed"
  BY <1>0, CreatorAlone DEF PGInv, ReceiptHonest
<1>4. \A h \in predating : Present(h)'
  BY <1>1, <1>2 DEF PGInv, ReceiptHonest
<1>5. CASE FailPortGroups(a) /\ UNCHANGED receipt
  BY <1>0, <1>1, <1>2, <1>4, <1>5, FailStep
<1>6. CASE GoTo(a, "begin") /\ UNCHANGED <<mutex, claimVars>>
           /\ (UNCHANGED receipt \/ PersistPodPortGroupReceipt(a))
  <2>1. PICK act \in ActorRow : /\ actor' = [actor EXCEPT ![a] = act] /\ act.at = "begin"
                                /\ act.created = actor[a].created
    BY <1>0, <1>6, GoRow DEF Creating
  <2>2. UNCHANGED <<mutex, claim, rollingBack, pgFaults>>
    BY <1>6 DEF claimVars
  <2>3. ~rollingBack
    BY <1>3 DEF Closing
  <2>4. act.at \notin Cleaning /\ act.at # "apply" /\ act.created \subseteq Switches \ predating
    BY <1>0, <2>1 DEF Cleaning, PGInv, ActorsInformed
  <2>5. CASE UNCHANGED receipt
    <3>1. PlacesOK'
      BY <1>0, <1>1, <2>2, <2>5 DEF PlacesOK
    <3> QED
      BY <1>0, <1>1, <1>2, <1>3, <1>4, <2>1, <2>2, <2>3, <2>4, <2>5, <3>1, CreatorStep
      DEF PGInv, ReceiptHonest
  <2>6. CASE PersistPodPortGroupReceipt(a)
    <3>1. receipt.state = "none" /\ receipt' = [receipt EXCEPT !.state = "planned",
                                         !.preexisting = {h \in Switches : Present(h)}]
      BY <2>6 DEF PersistPodPortGroupReceipt
    <3>2. {h \in Switches : Present(h)} = predating
      BY <1>1, <3>1 DEF PGInv, ReceiptHonest
    <3>3. receipt' \in ReceiptRow /\ receipt'.state = "planned" /\ receipt'.preexisting = predating
      BY <1>1, <3>1, <3>2 DEF PlacesOK, ReceiptRow, ReceiptStates
    <3>4. PlacesOK'
      BY <1>0, <1>1, <2>2, <3>3 DEF PlacesOK
    <3>5. \A h \in Switches \ predating : ~Present(h)'
      BY <1>2, <3>2
    <3> QED
      BY <1>0, <1>3, <1>4, <2>1, <2>2, <2>3, <2>4, <3>3, <3>4, <3>5, CreatorStep
  <2> QED
    BY <1>6, <2>5, <2>6
<1> QED
  BY <1>5, <1>6 DEF PlanPortGroups

\* The receipt goes to applying with what predates it.
LEMMA BeginPortGroupsKeeps ==
    ASSUME PGInv, NEW a \in CreateWorkers, BeginPortGroups(a)
    PROVE  PGInv'
<1>0. a \in Actors /\ actor[a].at = "begin" /\ actor[a].at \in Creating
      /\ UNCHANGED <<group, lastKey, predating>>
  BY DEF BeginPortGroups, Actors, switchVars, Creating
<1>1. PlacesOK /\ group' \in Keys /\ predating \subseteq Switches /\ actor \in [Actors -> ActorRow]
  BY <1>0, PGTypeFlat DEF PGInv, PlacesOK
<1>2. \A h \in Switches : Present(h)' <=> Present(h)
  BY <1>0 DEF Present
<1>3. mutex = a /\ ~Closing
  BY <1>0, CreatorAlone
<1>4. \A h \in predating : Present(h)'
  BY <1>1, <1>2 DEF PGInv, ReceiptHonest
<1>5. CASE FailPortGroups(a) /\ UNCHANGED receipt
  BY <1>0, <1>1, <1>2, <1>4, <1>5, FailStep
<1>6. CASE /\ BeginPodPortGroupMutation(a)
           /\ actor' = [actor EXCEPT ![a].at = "apply", ![a].todo = Owned]
           /\ UNCHANGED <<mutex, claimVars>>
  <2>1. receipt.preexisting = predating /\ Owned = Switches \ predating
    BY <1>6 DEF BeginPodPortGroupMutation, PGInv, ReceiptHonest, Owned
  <2>2. receipt.state \in {"planned", "applying", "active"}
        /\ receipt' = [receipt EXCEPT !.state = IF @ = "planned" THEN "applying" ELSE @]
    BY <1>6 DEF BeginPodPortGroupMutation
  <2>3. receipt' \in ReceiptRow /\ receipt'.state \in {"applying", "active"}
        /\ receipt'.preexisting = predating
    <3>1. PICK s \in {"applying", "active"} : receipt' = [receipt EXCEPT !.state = s]
      BY <2>2
    <3> QED
      BY <1>1, <2>1, <3>1 DEF PlacesOK, ReceiptRow, ReceiptStates
  <2>4. PICK act : act = [actor[a] EXCEPT !.at = "apply", !.todo = Owned]
    OBVIOUS
  <2>5. act \in ActorRow /\ act.at = "apply" /\ act.todo = Switches \ predating
        /\ act.created = actor[a].created
    BY <1>0, <1>1, <2>1, <2>4 DEF ActorRow, Creating
  <2>6. actor' = [actor EXCEPT ![a] = act]
    BY <1>0, <1>1, <1>6, <2>4
  <2>7. UNCHANGED <<mutex, claim, rollingBack, pgFaults>>
    BY <1>6 DEF claimVars
  <2>8. PlacesOK'
    BY <1>0, <1>1, <2>3, <2>7 DEF PlacesOK
  <2>9. ~rollingBack /\ act.at \notin Cleaning
    BY <1>3, <2>5 DEF Closing, Cleaning
  <2>10. act.created \subseteq Switches \ predating
    BY <1>0, <2>5 DEF PGInv, ActorsInformed
  <2> QED
    BY <1>0, <1>3, <1>4, <2>3, <2>5, <2>6, <2>7, <2>8, <2>9, <2>10, CreatorStep
<1> QED
  BY <1>5, <1>6 DEF BeginPortGroups

\* A group is added by the one creator.
LEMMA addPortGroupKeeps ==
    ASSUME PGInv, NEW a \in CreateWorkers, addPortGroup(a)
    PROVE  PGInv'
<1>0. a \in Actors /\ actor[a].at = "apply" /\ actor[a].at \in Creating
      /\ UNCHANGED <<predating, receipt, mutex, claim, rollingBack, pgFaults>>
  BY DEF addPortGroup, Actors, switchVars, claimVars, Creating
<1>1. PlacesOK /\ predating \subseteq Switches /\ actor \in [Actors -> ActorRow]
  BY PGTypeFlat DEF PGInv, PlacesOK
<1>2. mutex = a /\ ~Closing /\ ~rollingBack
  BY <1>0, CreatorAlone DEF Closing
<1>3. /\ receipt.state \in {"applying", "active"} /\ receipt.preexisting = predating
      /\ actor[a].todo \subseteq Switches \ predating /\ actor[a].created \subseteq Switches \ predating
  BY <1>0 DEF PGInv, ActorsInformed, ReceiptHonest
<1>4. PICK h \in actor[a].todo :
         /\ \/ Present(h) /\ UNCHANGED switchVars
            \/ /\ ~Present(h) /\ lastKey[h] < MaxKey
               /\ group' = [group EXCEPT ![h] = lastKey[h] + 1]
               /\ lastKey' = [lastKey EXCEPT ![h] = @ + 1] /\ UNCHANGED predating
         /\ actor' = [actor EXCEPT ![a].todo = @ \ {h}, ![a].created = @ \cup {h}]
  BY DEF addPortGroup
<1>5. h \in Switches /\ h \notin predating
  BY <1>3
<1>6. group' \in Keys /\ lastKey' \in Keys /\ (\A g \in Switches \ {h} : group'[g] = group[g])
  <2>1. group \in Keys /\ lastKey \in Keys
    BY <1>1 DEF PlacesOK
  <2>2. CASE UNCHANGED switchVars
    BY <2>1, <2>2 DEF switchVars
  <2>3. CASE /\ lastKey[h] < MaxKey /\ group' = [group EXCEPT ![h] = lastKey[h] + 1]
             /\ lastKey' = [lastKey EXCEPT ![h] = @ + 1]
    <3>1. lastKey[h] + 1 \in 0 .. MaxKey
      BY <1>5, <2>1, <2>3, PGBounds DEF Keys
    <3> QED
      BY <1>5, <2>1, <2>3, <3>1 DEF Keys
  <2> QED
    BY <1>4, <2>2, <2>3
<1>7. \A g \in predating : Present(g)'
  BY <1>1, <1>5, <1>6 DEF PGInv, ReceiptHonest, Present
<1>8. PICK act : act = [actor[a] EXCEPT !.todo = @ \ {h}, !.created = @ \cup {h}]
  OBVIOUS
<1>9. /\ act \in ActorRow /\ act.at = "apply" /\ act.todo \subseteq Switches \ predating
      /\ act.created \subseteq Switches \ predating
  BY <1>0, <1>1, <1>3, <1>5, <1>8 DEF ActorRow
<1>10. actor' = [actor EXCEPT ![a] = act]
  BY <1>0, <1>1, <1>4, <1>8
<1>11. PlacesOK'
  BY <1>0, <1>1, <1>6 DEF PlacesOK
<1>12. act.at \notin Cleaning
  BY <1>9 DEF Cleaning
<1> QED
  BY <1>0, <1>2, <1>3, <1>7, <1>9, <1>10, <1>11, <1>12, CreatorStep

\* A failed creator removes what it made.
LEMMA removeCreatedPortGroupsKeeps ==
    ASSUME PGInv, NEW a \in CreateWorkers, removeCreatedPortGroups(a)
    PROVE  PGInv'
<1>0. a \in Actors /\ actor[a].at \in Creating /\ FailPortGroups(a)
      /\ UNCHANGED <<lastKey, predating, receipt>>
  BY DEF removeCreatedPortGroups, Actors, Creating
<1>1. PlacesOK /\ predating \subseteq Switches
  BY PGTypeFlat DEF PGInv, PlacesOK
<1>2. PICK gone \in SUBSET actor[a].created :
         group' = [h \in Switches |-> IF h \in gone THEN 0 ELSE group[h]]
  BY DEF removeCreatedPortGroups
<1>3. gone \cap predating = {}
  BY <1>0 DEF PGInv, ActorsInformed
<1>4. group' \in Keys
  BY <1>1, <1>2, PGBounds DEF PlacesOK, Keys
<1>5. /\ \A h \in Switches : Present(h)' => Present(h)
      /\ \A h \in predating : Present(h)'
  BY <1>1, <1>2, <1>3 DEF Present, PGInv, ReceiptHonest
<1> QED
  BY <1>0, <1>4, <1>5, FailStep

\* Binding keys makes a receipt active and changes nothing else of it but the keys.
LEMMA BoundReceipt ==
    ASSUME PGInv, PersistPodPortGroupKeys
    PROVE  /\ receipt.state \in {"applying", "active"} /\ receipt' \in ReceiptRow
           /\ receipt'.state = "active" /\ receipt'.preexisting = predating
<1>1. PlacesOK /\ receipt.state \in {"applying", "active"}
  BY PGTypeFlat DEF PGInv, PersistPodPortGroupKeys
<1>2. PICK k : k = [h \in Switches |-> IF Present(h) THEN group[h] ELSE receipt.keys[h]]
  OBVIOUS
<1>3. k \in Keys
  BY <1>1, <1>2 DEF PlacesOK, Keys, ReceiptRow
<1>4. receipt' = [receipt EXCEPT !.state = "active", !.keys = k]
  BY <1>2 DEF PersistPodPortGroupKeys
<1>5. receipt.preexisting = predating
  BY <1>1 DEF PGInv, ReceiptHonest
<1> QED
  BY <1>1, <1>3, <1>4, <1>5 DEF PlacesOK, ReceiptRow, ReceiptStates

\* The keys of the groups are bound to the receipt.
LEMMA BindPortGroupKeysKeeps ==
    ASSUME PGInv, NEW a \in CreateWorkers, BindPortGroupKeys(a)
    PROVE  PGInv'
<1>0. a \in Actors /\ actor[a].at \in Creating /\ UNCHANGED <<group, lastKey, predating>>
  BY DEF BindPortGroupKeys, Actors, switchVars, Creating
<1>1. PlacesOK /\ group' \in Keys /\ predating \subseteq Switches
  BY <1>0, PGTypeFlat DEF PGInv, PlacesOK
<1>2. \A h \in Switches : Present(h)' <=> Present(h)
  BY <1>0 DEF Present
<1>3. \A h \in predating : Present(h)'
  BY <1>1, <1>2 DEF PGInv, ReceiptHonest
<1>4. CASE FailPortGroups(a) /\ UNCHANGED receipt
  BY <1>0, <1>1, <1>2, <1>3, <1>4, FailStep
<1>5. CASE PersistPodPortGroupKeys /\ PGUnlock(a) /\ GoTo(a, "made") /\ UNCHANGED claimVars
  <2>1. PICK act \in ActorRow : actor' = [actor EXCEPT ![a] = act] /\ act.at = "made"
    BY <1>0, <1>5, GoRow
  <2>2. receipt' \in ReceiptRow /\ receipt'.state = "active" /\ receipt'.preexisting = predating
    BY <1>5, BoundReceipt
  <2>3. mutex' = NoActor /\ UNCHANGED <<claim, rollingBack, pgFaults>>
    BY <1>5 DEF PGUnlock, claimVars
  <2>4. PlacesOK'
    BY <1>0, <1>1, <2>2, <2>3 DEF PlacesOK
  <2>5. act.at \notin Creating /\ act.at \notin Cleaning /\ act.at # "apply"
    BY <2>1 DEF Creating, Cleaning
  <2> QED
    BY <1>0, <1>3, <2>1, <2>2, <2>3, <2>4, <2>5, CreatorStep
<1> QED
  BY <1>4, <1>5 DEF BindPortGroupKeys

\* The creation is over.
LEMMA FinishCreateKeeps ==
    ASSUME PGInv, NEW a \in CreateWorkers, FinishCreate(a)
    PROVE  PGInv'
<1>0. a \in Actors /\ actor[a].at = "made"
      /\ UNCHANGED <<group, lastKey, predating, receipt, mutex>>
  BY DEF FinishCreate, Actors, switchVars
<1>1. PlacesOK /\ predating \subseteq Switches /\ actor \in [Actors -> ActorRow]
  BY PGTypeFlat DEF PGInv, PlacesOK
<1>2. PICK act \in ActorRow :
         /\ actor' = [actor EXCEPT ![a] = act] /\ pgFaults' = pgFaults
         /\ \/ act.at = "rest" /\ claim = a /\ claim' = Destroyer /\ UNCHANGED rollingBack
            \/ act.at = "undo" /\ claim = a /\ UNCHANGED claim /\ rollingBack' = TRUE
            \/ act.at = "rest" /\ claim # a /\ UNCHANGED <<claim, rollingBack>>
  <2>1. CASE /\ claim = a /\ claim' = Destroyer /\ actor' = [actor EXCEPT ![a] = AtRest]
             /\ UNCHANGED <<rollingBack, pgFaults>>
    BY <2>1, RestRow
  <2>2. CASE FailCreate(a)
    BY <1>0, <2>2, FailRow
  <2> QED
    BY <2>1, <2>2 DEF FinishCreate
<1>3. \A b \in Actors : actor'[b] = IF b = a THEN act ELSE actor[b]
  BY <1>1, <1>2
<1>4. actor' \in [Actors -> ActorRow]
  BY <1>1, <1>2
<1>5. PlacesOK'
  BY <1>0, <1>1, <1>2 DEF PlacesOK, Actors
<1>6. PGTypeOK'
  BY <1>4, <1>5 DEF PGTypeOK, PlacesOK, ReceiptRow, ActorRow, SeenRow
<1>7. \A h \in Switches : Present(h)' <=> Present(h)
  BY <1>0 DEF Present
<1>8. claim = a => \A b \in Actors : actor[b].at \notin Creating
  BY <1>0 DEF PGInv, CreatorsExclusive
<1>9. act.at \notin Creating /\ act.at # "made" /\ act.at \notin {"apply", "close", "delete", "mark"}
  BY <1>2 DEF Creating
<1>10. (Closing => Closing') /\ (claim = a => Closing') /\ (claim # a => (Closing <=> Closing'))
  BY <1>2 DEF Closing
<1>11. act.at \in Cleaning => claim = a
  BY <1>2 DEF Cleaning
<1>12. claim' # claim => claim = a /\ claim' = Destroyer
  BY <1>2
<1>13. CreatorsExclusive'
  <2>1. CASE claim = a
    <3>1. \A b \in Actors : actor'[b].at \notin Creating
      BY <1>3, <1>8, <1>9, <2>1
    <3> QED
      BY <1>10, <2>1, <3>1 DEF CreatorsExclusive
  <2>2. CASE claim # a
    <3>1. claim' = claim /\ (Closing <=> Closing') /\ act.at \notin Cleaning
      BY <1>10, <1>11, <1>12, <2>2
    <3> QED
      BY <1>0, <1>3, <1>9, <3>1 DEF PGInv, CreatorsExclusive
  <2> QED
    BY <2>1, <2>2
<1>14. ReceiptHonest'
  BY <1>0, <1>1, <1>7, <1>10 DEF PGInv, ReceiptHonest
<1>15. ActorsInformed'
  BY <1>0, <1>3, <1>7, <1>9 DEF PGInv, ActorsInformed
<1> QED
  BY <1>6, <1>13, <1>14, <1>15 DEF PGInv

\* The claim is lost: the new owner is at rest.
LEMMA LoseCreateClaimKeeps ==
    ASSUME PGInv, NEW a \in CreateWorkers, LoseCreateClaim(a)
    PROVE  PGInv'
<1>0. a \in Actors /\ claim = a /\ a # Destroyer
      /\ UNCHANGED <<group, lastKey, predating, receipt, rollingBack>>
  BY DEF LoseCreateClaim, Actors, switchVars
<1>1. PlacesOK /\ predating \subseteq Switches /\ actor \in [Actors -> ActorRow]
  BY PGTypeFlat DEF PGInv, PlacesOK
<1>2. PICK b \in CreateWorkers \ {a} : actor[b].at = "rest" /\ claim' = b
  BY DEF LoseCreateClaim
<1>3. b \in Actors /\ b # Destroyer
  BY WorkersNamed DEF Actors
<1>4. PICK act \in ActorRow :
         /\ actor' = [actor EXCEPT ![a] = act]
         /\ \/ act = actor[a] /\ mutex' = mutex
            \/ act.at = "rest" /\ mutex' = IF mutex = a THEN NoActor ELSE mutex
  <2>1. CASE UNCHANGED <<actor, mutex>>
    BY <1>0, <1>1, <2>1
  <2>2. CASE actor' = [actor EXCEPT ![a] = AtRest] /\ mutex' = IF mutex = a THEN NoActor ELSE mutex
    BY <2>2, RestRow
  <2> QED
    BY <2>1, <2>2 DEF LoseCreateClaim
<1>5. actor' \in [Actors -> ActorRow] /\ \A c \in Actors : actor'[c] = IF c = a THEN act ELSE actor[c]
  BY <1>1, <1>4
<1>6. pgFaults' \in 0 .. MaxPGFaults
  BY <1>1, PGBounds DEF LoseCreateClaim, PlacesOK
<1>7. PlacesOK'
  BY <1>0, <1>1, <1>2, <1>3, <1>4, <1>6 DEF PlacesOK
<1>8. PGTypeOK'
  BY <1>5, <1>7 DEF PGTypeOK, PlacesOK, ReceiptRow, ActorRow, SeenRow
<1>9. (Closing' <=> Closing) /\ (\A h \in Switches : Present(h)' <=> Present(h))
  BY <1>0, <1>2, <1>3 DEF Closing, Present
<1>10. actor'[b].at = "rest"
  BY <1>2, <1>3, <1>5
<1>11. \A c \in Actors : actor'[c].at = "rest" \/ actor'[c] = actor[c]
  BY <1>4, <1>5
<1>12. \A c \in Actors : actor'[c].at \in Creating => mutex' = c
  <2>1. "rest" \notin Creating
    BY DEF Creating
  <2> QED
    BY <1>4, <1>5, <1>11, <2>1 DEF PGInv, CreatorsExclusive
<1>13. CreatorsExclusive'
  BY <1>2, <1>9, <1>10, <1>11, <1>12 DEF PGInv, CreatorsExclusive, Creating, Cleaning
<1>14. ReceiptHonest'
  BY <1>0, <1>1, <1>9 DEF PGInv, ReceiptHonest
<1>15. ActorsInformed'
  BY <1>0, <1>9, <1>11 DEF PGInv, ActorsInformed, Creating
<1> QED
  BY <1>8, <1>13, <1>14, <1>15 DEF PGInv

\* A group of the pod is taken from a switch behind the pod's back.
LEMMA SwitchDriftsKeeps == PGInv /\ SwitchDrifts => PGInv'
<1> SUFFICES ASSUME PGInv, SwitchDrifts PROVE PGInv'
  OBVIOUS
<1>0. UNCHANGED <<lastKey, predating, receipt, claim, rollingBack, mutex, actor>>
  BY DEF SwitchDrifts
<1>1. PlacesOK /\ predating \subseteq Switches /\ actor \in [Actors -> ActorRow]
  BY PGTypeFlat DEF PGInv, PlacesOK
<1>2. PICK h \in Switches \ predating : group' = [group EXCEPT ![h] = 0]
  BY DEF SwitchDrifts
<1>3. group' \in Keys /\ pgFaults' \in 0 .. MaxPGFaults
  BY <1>1, <1>2, PGBounds DEF SwitchDrifts, PlacesOK, Keys
<1>4. PGTypeOK'
  BY <1>0, <1>1, <1>3 DEF PGTypeOK, PlacesOK, ReceiptRow, ActorRow, SeenRow
<1>5. /\ \A g \in Switches : Present(g)' => Present(g)
      /\ \A g \in predating : Present(g)' <=> Present(g)
  BY <1>1, <1>2 DEF Present, PlacesOK, Keys
<1>6. CreatorsExclusive'
  BY <1>0 DEF PGInv, CreatorsExclusive, Closing
<1>7. ReceiptHonest'
  BY <1>0, <1>1, <1>5 DEF PGInv, ReceiptHonest, Closing
<1>8. ActorsInformed'
  BY <1>0, <1>5 DEF PGInv, ActorsInformed
<1> QED
  BY <1>4, <1>6, <1>7, <1>8 DEF PGInv

\* A clean-up that fails starts again.
LEMMA RetryRow ==
    ASSUME PGInv, NEW a \in Actors, RetryCleanup(a)
    PROVE  \E act \in ActorRow : actor' = [actor EXCEPT ![a] = act] /\ act.at \in {"rest", "undo"}
<1>1. CleanupStart(a) \in {"rest", "undo"}
  BY DEF CleanupStart
<1>2. CleanupStart(a) \in {"rest", "made"} \cup Creating \cup Cleaning
  BY <1>1 DEF Cleaning
<1> QED
  BY <1>1, <1>2, GoRow DEF RetryCleanup

\* A clean-up that failed has changed groups of the pod at most.
LEMMA RetryStep ==
    ASSUME PGInv, NEW a \in Actors, Closing, RetryCleanup(a), UNCHANGED <<lastKey, predating, receipt>>,
           group' \in Keys, mutex' \in Actors \cup {NoActor},
           \A h \in Switches : Present(h)' => Present(h), \A h \in predating : Present(h)'
    PROVE  PGInv'
<1>1. PICK act \in ActorRow : actor' = [actor EXCEPT ![a] = act] /\ act.at \in {"rest", "undo"}
  BY RetryRow
<1>2. PlacesOK /\ UNCHANGED <<claim, rollingBack, pgFaults>>
  BY PGTypeFlat DEF PGInv, RetryCleanup, claimVars
<1>3. PlacesOK' /\ Closing'
  BY <1>2 DEF PlacesOK, Closing
<1>4. act.at \notin Creating /\ act.at # "close" /\ act.at # "mark"
  BY <1>1 DEF Creating
<1> QED
  BY <1>1, <1>3, <1>4, CleanupStep DEF PGInv, ReceiptHonest

\* A clean-up that is through, the receipt as it was or closed on good grounds.
LEMMA EndStep ==
    ASSUME PGInv, NEW a \in Actors, Closing, EndCleanup(a), UNCHANGED <<group, lastKey, predating>>,
           mutex' \in Actors \cup {NoActor},
           \/ UNCHANGED receipt
           \/ /\ receipt' = [receipt EXCEPT !.state = "removed"] /\ receipt.state # "none"
              /\ \A h \in Switches \ predating : ~Present(h)
    PROVE  PGInv'
<1>1. PICK act \in ActorRow : act = AtRest /\ act.at = "rest"
  BY RestRow
<1>2. actor' = [actor EXCEPT ![a] = act] /\ UNCHANGED <<rollingBack, pgFaults>>
      /\ claim' \in {claim, Destroyer}
  BY <1>1 DEF EndCleanup
<1>3. PlacesOK /\ predating \subseteq Switches
  BY PGTypeFlat DEF PGInv, PlacesOK
<1>4. receipt' \in ReceiptRow /\ receipt'.preexisting = receipt.preexisting
      /\ receipt'.state \in {receipt.state, "removed"}
      /\ (receipt'.state # receipt.state =>
             receipt.state # "none" /\ \A h \in Switches \ predating : ~Present(h))
  BY <1>3 DEF PlacesOK, ReceiptRow, ReceiptStates
<1>5. PlacesOK' /\ Closing'
  BY <1>2, <1>3, <1>4 DEF PlacesOK, Closing, Actors
<1>6. \A h \in Switches : Present(h)' <=> Present(h)
  BY DEF Present
<1>7. \A h \in predating : Present(h)'
  BY <1>3, <1>6 DEF PGInv, ReceiptHonest
<1>8. receipt'.state # "none" => receipt'.preexisting = predating
  BY <1>4 DEF PGInv, ReceiptHonest
<1>9. receipt'.state \in {"none", "planned", "removed"} =>
         \A h \in Switches \ predating : ~Present(h)'
  BY <1>4, <1>6 DEF PGInv, ReceiptHonest
<1>10. act.at \notin Creating /\ act.at # "close" /\ act.at # "mark"
  BY <1>1 DEF Creating
<1> QED
  BY <1>1, <1>2, <1>4, <1>5, <1>6, <1>7, <1>8, <1>9, <1>10, CleanupStep

\* A deleter reads the receipt.
LEMMA ReadReceiptKeeps ==
    ASSUME PGInv, NEW a \in Actors, ReadReceipt(a)
    PROVE  PGInv'
<1>0. /\ actor[a].at = CleanupStart(a) /\ (a = Destroyer => claim = a)
      /\ UNCHANGED <<group, lastKey, predating, receipt, claim, rollingBack, pgFaults, mutex>>
      /\ actor' = [actor EXCEPT ![a].at = "close", ![a].seen = GetPodPortGroupReceipt]
  BY DEF ReadReceipt, switchVars, claimVars
<1>1. PlacesOK /\ predating \subseteq Switches /\ actor \in [Actors -> ActorRow]
  BY PGTypeFlat DEF PGInv, PlacesOK
<1>2. Closing
  BY <1>0 DEF CleanupStart, PGInv, CreatorsExclusive, Cleaning, Closing
<1>3. PICK act : act = [actor[a] EXCEPT !.at = "close", !.seen = GetPodPortGroupReceipt]
  OBVIOUS
<1>4. act \in ActorRow /\ act.at = "close" /\ act.seen.state = receipt.state
  <2>1. GetPodPortGroupReceipt \in SeenRow /\ GetPodPortGroupReceipt.state = receipt.state
    BY <1>1 DEF GetPodPortGroupReceipt, SeenRow, PlacesOK, ReceiptRow
  <2> QED
    BY <1>1, <1>3, <2>1 DEF ActorRow, Cleaning
<1>5. actor' = [actor EXCEPT ![a] = act]
  BY <1>0, <1>1, <1>3
<1>6. PlacesOK' /\ Closing' /\ (\A h \in Switches : Present(h)' <=> Present(h))
  BY <1>0, <1>1, <1>2 DEF PlacesOK, Closing, Present
<1>7. act.at \notin Creating
  BY <1>4 DEF Creating
<1> QED
  BY <1>0, <1>1, <1>2, <1>4, <1>5, <1>6, <1>7, CleanupStep DEF PGInv, ReceiptHonest

\* A receipt that was only planned is closed.
LEMMA ClosePlannedKeeps ==
    ASSUME PGInv, NEW a \in Actors, ClosePlanned(a)
    PROVE  PGInv'
<1>0. actor[a].at = "close" /\ UNCHANGED <<group, lastKey, predating, mutex>> /\ EndCleanup(a)
  BY DEF ClosePlanned, switchVars
<1>1. Closing /\ mutex' \in Actors \cup {NoActor}
  BY <1>0, PGTypeFlat DEF PGInv, CreatorsExclusive, Cleaning, PlacesOK
<1>2. CASE UNCHANGED receipt
  BY <1>0, <1>1, <1>2, EndStep
<1>3. CASE actor[a].seen.state = "planned" /\ MarkPodPortGroupRemoved
  <2>1. receipt.state \in {"planned", "removed"}
    BY <1>0, <1>3 DEF PGInv, ActorsInformed
  <2>2. receipt' = [receipt EXCEPT !.state = "removed"]
    BY <1>3 DEF MarkPodPortGroupRemoved
  <2>3. \A h \in Switches \ predating : ~Present(h)
    BY <2>1 DEF PGInv, ReceiptHonest
  <2> QED
    BY <1>0, <1>1, <2>1, <2>2, <2>3, EndStep
<1> QED
  BY <1>2, <1>3 DEF ClosePlanned

\* What a clean-up step that moves on, and leaves the switches alone, needs.
LEMMA GoOnStep ==
    ASSUME PGInv, NEW a \in Actors, Closing, NEW act \in ActorRow,
           actor' = [actor EXCEPT ![a] = act],
           UNCHANGED <<group, lastKey, predating, claim, rollingBack, pgFaults, mutex>>,
           \/ act.at = "bind" /\ UNCHANGED receipt
           \/ act.at = "delete" /\ PersistPodPortGroupKeys
    PROVE  PGInv'
<1>1. PlacesOK /\ predating \subseteq Switches
  BY PGTypeFlat DEF PGInv, PlacesOK
<1>2. Closing' /\ (\A h \in Switches : Present(h)' <=> Present(h))
  BY DEF Closing, Present
<1>3. \A h \in predating : Present(h)'
  BY <1>1, <1>2 DEF PGInv, ReceiptHonest
<1>4. act.at \notin Creating /\ act.at # "close" /\ act.at # "mark"
  BY DEF Creating
<1>5. CASE act.at = "bind" /\ UNCHANGED receipt
  <2>1. PlacesOK'
    BY <1>1, <1>5 DEF PlacesOK
  <2> QED
    BY <1>2, <1>3, <1>4, <1>5, <2>1, CleanupStep DEF PGInv, ReceiptHonest
<1>6. CASE act.at = "delete" /\ PersistPodPortGroupKeys
  <2>1. receipt.state \in {"applying", "active"} /\ receipt' \in ReceiptRow
        /\ receipt'.state = "active" /\ receipt'.preexisting = predating
    BY <1>6, BoundReceipt
  <2>2. PlacesOK'
    BY <1>1, <2>1 DEF PlacesOK
  <2> QED
    BY <1>2, <1>3, <1>4, <2>1, <2>2, CleanupStep
<1> QED
  BY <1>5, <1>6

\* An applying receipt without groups is closed.
LEMMA closeAbsentKeeps ==
    ASSUME PGInv, NEW a \in Actors, closeAbsentApplyingReceipt(a)
    PROVE  PGInv'
<1>0. actor[a].at = "close" /\ UNCHANGED <<group, lastKey, predating, mutex>>
  BY DEF closeAbsentApplyingReceipt, switchVars
<1>1. PlacesOK /\ predating \subseteq Switches /\ mutex' \in Actors \cup {NoActor} /\ group' \in Keys
  BY <1>0, PGTypeFlat DEF PGInv, PlacesOK
<1>2. Closing
  BY <1>0 DEF PGInv, CreatorsExclusive, Cleaning
<1>3. CASE OwnedPortGroupsAbsent(a) /\ MarkPodPortGroupAbsentRemoved /\ EndCleanup(a)
  <2>1. receipt.state = "applying" /\ receipt' = [receipt EXCEPT !.state = "removed"]
    BY <1>3 DEF MarkPodPortGroupAbsentRemoved
  <2>2. receipt.preexisting = predating
    BY <2>1 DEF PGInv, ReceiptHonest
  <2>3. \A h \in Switches \ predating : ~Present(h)
    BY <1>3, <2>2 DEF OwnedPortGroupsAbsent, Owned
  <2> QED
    BY <1>0, <1>1, <1>2, <1>3, <2>1, <2>3, EndStep
<1>4. CASE GoTo(a, "bind") /\ UNCHANGED <<receipt, claimVars>>
  <2>1. PICK act \in ActorRow : actor' = [actor EXCEPT ![a] = act] /\ act.at = "bind"
    BY <1>4, GoRow DEF Cleaning
  <2> QED
    BY <1>0, <1>2, <1>4, <2>1, GoOnStep DEF claimVars
<1>5. CASE RetryCleanup(a) /\ UNCHANGED receipt
  <2>1. /\ \A h \in Switches : Present(h)' => Present(h)
        /\ \A h \in predating : Present(h)'
    BY <1>0, <1>1 DEF Present, PGInv, ReceiptHonest
  <2> QED
    BY <1>0, <1>1, <1>2, <1>5, <2>1, RetryStep
<1> QED
  BY <1>3, <1>4, <1>5 DEF closeAbsentApplyingReceipt

\* The keys are bound before a deletion.
LEMMA BindForDeleteKeeps ==
    ASSUME PGInv, NEW a \in Actors, BindForDelete(a)
    PROVE  PGInv'
<1>0. actor[a].at = "bind" /\ UNCHANGED <<group, lastKey, predating, mutex>>
  BY DEF BindForDelete, switchVars
<1>1. PlacesOK /\ predating \subseteq Switches /\ mutex' \in Actors \cup {NoActor} /\ group' \in Keys
      /\ actor \in [Actors -> ActorRow]
  BY <1>0, PGTypeFlat DEF PGInv, PlacesOK
<1>2. Closing
  BY <1>0 DEF PGInv, CreatorsExclusive, Cleaning
<1>3. CASE /\ PersistPodPortGroupKeys /\ UNCHANGED claimVars
           /\ actor' = [actor EXCEPT ![a].at = "delete", ![a].seen.keys =
                 [h \in Switches |-> IF Present(h) THEN group[h] ELSE @[h]]]
  <2>1. PICK k : k = [h \in Switches |-> IF Present(h) THEN group[h] ELSE actor[a].seen.keys[h]]
    OBVIOUS
  <2>2. k \in Keys
    BY <1>1, <2>1 DEF PlacesOK, Keys, ActorRow, SeenRow
  <2>3. PICK act : act = [actor[a] EXCEPT !.at = "delete", !.seen.keys = k]
    OBVIOUS
  <2>4. act \in ActorRow /\ act.at = "delete"
    BY <1>1, <2>2, <2>3 DEF ActorRow, SeenRow, Cleaning
  <2>5. actor' = [actor EXCEPT ![a] = act]
    BY <1>1, <1>3, <2>1, <2>3
  <2> QED
    BY <1>0, <1>2, <1>3, <2>4, <2>5, GoOnStep DEF claimVars
<1>4. CASE RetryCleanup(a) /\ UNCHANGED receipt
  <2>1. /\ \A h \in Switches : Present(h)' => Present(h)
        /\ \A h \in predating : Present(h)'
    BY <1>0, <1>1 DEF Present, PGInv, ReceiptHonest
  <2> QED
    BY <1>0, <1>1, <1>2, <1>4, <2>1, RetryStep
<1> QED
  BY <1>3, <1>4 DEF BindForDelete

\* A group with a bound key is removed.
LEMMA DeletePortGroupMutationKeeps ==
    ASSUME PGInv, NEW a \in Actors, DeletePortGroupMutation(a)
    PROVE  PGInv'
<1>0. actor[a].at = "delete" /\ UNCHANGED <<lastKey, predating, receipt>> /\ mutex = NoActor
  BY DEF DeletePortGroupMutation
<1>1. PlacesOK /\ predating \subseteq Switches
  BY PGTypeFlat DEF PGInv, PlacesOK
<1>2. Closing
  BY <1>0 DEF PGInv, CreatorsExclusive, Cleaning
<1>3. PICK gone \in SUBSET DeletablePortGroups :
         /\ group' = [h \in Switches |-> IF h \in gone THEN 0 ELSE group[h]]
         /\ \/ gone = DeletablePortGroups /\ GoTo(a, "mark") /\ UNCHANGED claimVars
            \/ RetryCleanup(a)
  BY DEF DeletePortGroupMutation
<1>4. mutex' \in Actors \cup {NoActor}
  BY <1>0 DEF DeletePortGroupMutation, Actors
<1>5. group' \in Keys
  BY <1>1, <1>3, PGBounds DEF PlacesOK, Keys
<1>6. \A h \in Switches : /\ Present(h)' <=> Present(h) /\ h \notin gone
                          /\ h \in gone => h \in Owned
  BY <1>3 DEF Present, DeletablePortGroups
<1>p. receipt.preexisting = predating
  BY <1>0 DEF PGInv, ActorsInformed, ReceiptHonest
<1>7. \A h \in predating : Present(h)'
  BY <1>1, <1>6, <1>p DEF PGInv, ReceiptHonest, Owned
<1>8. CASE RetryCleanup(a)
  BY <1>0, <1>2, <1>4, <1>5, <1>6, <1>7, <1>8, RetryStep
<1>9. CASE gone = DeletablePortGroups /\ GoTo(a, "mark") /\ UNCHANGED claimVars
  <2>1. PICK act \in ActorRow : actor' = [actor EXCEPT ![a] = act] /\ act.at = "mark"
    BY <1>9, GoRow DEF Cleaning
  <2>2. PlacesOK' /\ Closing'
    BY <1>0, <1>1, <1>2, <1>4, <1>5, <1>9 DEF PlacesOK, Closing, claimVars
  <2>3. \A h \in Switches \ predating : ~Present(h)'
    BY <1>6, <1>9, <1>p DEF DeletablePortGroups, Owned
  <2>4. act.at \notin Creating /\ act.at # "close"
    BY <2>1 DEF Creating
  <2> QED
    BY <1>0, <1>2, <1>6, <1>7, <2>1, <2>2, <2>3, <2>4, CleanupStep DEF PGInv, ReceiptHonest
<1> QED
  BY <1>3, <1>8, <1>9

\* The receipt is marked removed after nothing was left.
LEMMA MarkRemovedKeeps ==
    ASSUME PGInv, NEW a \in Actors, MarkRemoved(a)
    PROVE  PGInv'
<1>0. actor[a].at = "mark" /\ UNCHANGED <<group, lastKey, predating>>
  BY DEF MarkRemoved, switchVars
<1>1. PlacesOK /\ predating \subseteq Switches /\ group' \in Keys
  BY <1>0, PGTypeFlat DEF PGInv, PlacesOK
<1>2. mutex' \in Actors \cup {NoActor}
  BY <1>1 DEF MarkRemoved, PlacesOK
<1>3. Closing
  BY <1>0 DEF PGInv, CreatorsExclusive, Cleaning
<1>4. CASE MarkPodPortGroupRemoved /\ EndCleanup(a)
  <2>1. receipt' = [receipt EXCEPT !.state = "removed"] /\ receipt.state # "none"
    BY <1>4 DEF MarkPodPortGroupRemoved
  <2>2. \A h \in Switches \ predating : ~Present(h)
    BY <1>0 DEF PGInv, ActorsInformed
  <2> QED
    BY <1>0, <1>2, <1>3, <1>4, <2>1, <2>2, EndStep
<1>5. CASE RetryCleanup(a) /\ UNCHANGED receipt
  <2>1. /\ \A h \in Switches : Present(h)' => Present(h)
        /\ \A h \in predating : Present(h)'
    BY <1>0, <1>1 DEF Present, PGInv, ReceiptHonest
  <2> QED
    BY <1>0, <1>1, <1>2, <1>3, <1>5, <2>1, RetryStep
<1> QED
  BY <1>4, <1>5 DEF MarkRemoved

\* Every step keeps the invariant.
LEMMA PGStepKeeps == PGInv /\ [PGNext]_pgVars => PGInv'
<1> SUFFICES ASSUME PGInv, [PGNext]_pgVars PROVE PGInv'
  OBVIOUS
<1>1. CASE \E a \in CreateWorkers :
              \/ StartPortGroups(a) \/ PlanPortGroups(a) \/ BeginPortGroups(a)
              \/ addPortGroup(a) \/ removeCreatedPortGroups(a) \/ BindPortGroupKeys(a)
              \/ FinishCreate(a) \/ LoseCreateClaim(a)
  BY <1>1, StartPortGroupsKeeps, PlanPortGroupsKeeps, BeginPortGroupsKeeps, addPortGroupKeeps,
     removeCreatedPortGroupsKeeps, BindPortGroupKeysKeeps, FinishCreateKeeps, LoseCreateClaimKeeps
<1>2. CASE \E a \in Actors :
              \/ ReadReceipt(a) \/ ClosePlanned(a) \/ closeAbsentApplyingReceipt(a)
              \/ BindForDelete(a) \/ DeletePortGroupMutation(a) \/ MarkRemoved(a)
  BY <1>2, ReadReceiptKeeps, ClosePlannedKeeps, closeAbsentKeeps, BindForDeleteKeeps,
     DeletePortGroupMutationKeeps, MarkRemovedKeeps
<1>3. CASE SwitchDrifts
  BY <1>3, SwitchDriftsKeeps
<1>4. CASE UNCHANGED pgVars
  BY <1>4 DEF pgVars, PGInv, PGTypeOK, CreatorsExclusive, ReceiptHonest, ActorsInformed, Closing,
     Present
<1> QED
  BY <1>1, <1>2, <1>3, <1>4 DEF PGNext

\* The port groups keep their inductive invariant, whoever loses the claim,
\* dies or cleans up twice.
THEOREM PortGroupInvariant == PGSpec => []PGInv
BY PGInitKeeps, PGStepKeeps, PTL DEF PGSpec

\* A receipt that says removed tells the truth about every host.
THEOREM PortGroupsRemoved == PGSpec => []RemovedLeavesNothing
<1>1. PGInv => RemovedLeavesNothing
  <2>1. PGInv => predating \subseteq Switches
    BY DEF PGInv, PGTypeOK
  <2> QED
    BY <2>1 DEF PGInv, ReceiptHonest, RemovedLeavesNothing
<1> QED
  BY <1>1, PortGroupInvariant, PTL

-----------------------------------------------------------------------------
(* Placement: the memory of a set of VMs. *)

\* The megabytes of a set of VMs are finitely many.
LEMMA MegabytesFinite ==
  ASSUME NEW S \in SUBSET VMs PROVE IsFiniteSet(Megabytes(S))
<1>1. PICK f : f = [v \in S |-> {v} \X (1 .. Ram[v])]
  OBVIOUS
<1>2. PICK T : T = {{v} \X (1 .. Ram[v]) : v \in S}
  OBVIOUS
<1>3. f \in Surjection(S, T)
  BY <1>1, <1>2 DEF Surjection
<1>4. IsFiniteSet(S)
  BY FS_Subset, PlansPartition
<1>5. IsFiniteSet(T)
  BY <1>3, <1>4, FS_Surjection
<1>6. ASSUME NEW v \in S PROVE IsFiniteSet({v} \X (1 .. Ram[v]))
  <2>1. Ram[v] \in Nat
    BY PlacementSizes
  <2>2. IsFiniteSet(1 .. Ram[v])
    BY <2>1, FS_Interval
  <2>3. IsFiniteSet({v})
    BY FS_Singleton
  <2> QED BY <2>2, <2>3, FS_Product
<1>7. \A m \in T : IsFiniteSet(m)
  BY <1>2, <1>6
<1> QED BY <1>2, <1>5, <1>7, FS_UNION DEF Megabytes

\* The memory of a set of VMs is a number.
LEMMA MemoryType ==
  ASSUME NEW S \in SUBSET VMs PROVE MemoryMB(S) \in Nat
BY MegabytesFinite, FS_CardinalityType DEF MemoryMB

\* More VMs take no less memory.
LEMMA MemoryGrows ==
  ASSUME NEW T \in SUBSET VMs, NEW S \in SUBSET T PROVE MemoryMB(S) <= MemoryMB(T)
<1>1. Megabytes(S) \subseteq Megabytes(T)
  BY DEF Megabytes
<1> QED BY <1>1, MegabytesFinite, FS_Subset DEF MemoryMB

\* Two sets of VMs take together at most what they take apart.
LEMMA MemoryAdds ==
  ASSUME NEW S \in SUBSET VMs, NEW T \in SUBSET VMs PROVE MemoryMB(S \cup T) <= MemoryMB(S) + MemoryMB(T)
<1>1. Megabytes(S \cup T) = Megabytes(S) \cup Megabytes(T)
  BY DEF Megabytes
<1>2. PICK a, b, c : a = Megabytes(S) /\ b = Megabytes(T) /\ c = a \cap b
  OBVIOUS
<1>3. IsFiniteSet(a) /\ IsFiniteSet(b) /\ IsFiniteSet(c)
  BY <1>2, MegabytesFinite, FS_Intersection
<1>4. Cardinality(a) \in Nat /\ Cardinality(b) \in Nat /\ Cardinality(c) \in Nat
  BY <1>3, FS_CardinalityType
<1>5. Cardinality(a \cup b) = Cardinality(a) + Cardinality(b) - Cardinality(c)
  BY <1>2, <1>3, FS_Union
<1>6. MemoryMB(S \cup T) = MemoryMB(S) + MemoryMB(T) - Cardinality(c)
  BY <1>1, <1>2, <1>5 DEF MemoryMB
<1>7. MemoryMB(S) \in Nat /\ MemoryMB(T) \in Nat
  BY MemoryType
<1> QED BY <1>4, <1>6, <1>7

\* Resident VMs are not charged, so they add nothing.
LEMMA MemoryOfNone ==
  ASSUME NEW S \in SUBSET VMs, NEW T \in SUBSET VMs, S \subseteq T \cup Resident PROVE MemoryMB(S) <= MemoryMB(T)
<1>1. ASSUME NEW v \in Resident PROVE {v} \X (1 .. Ram[v]) = {}
  <2>1. Ram[v] = 0
    BY <1>1, PlacementSizes
  <2> QED BY <2>1
<1>2. Megabytes(S) \subseteq Megabytes(T)
  <2> SUFFICES ASSUME NEW m \in Megabytes(S) PROVE m \in Megabytes(T)
    OBVIOUS
  <2>1. PICK v \in S : m \in {v} \X (1 .. Ram[v])
    BY DEF Megabytes
  <2>2. v \in T
    BY <1>1, <2>1
  <2> QED BY <2>1, <2>2 DEF Megabytes
<1> QED BY <1>2, MegabytesFinite, FS_Subset DEF MemoryMB

-----------------------------------------------------------------------------
(* Placement: rows, plans and samples. *)

\* What the invariant says of one VM and of one job.
LEMMA OnePlaced ==
  ASSUME PlanInv, NEW v \in VMs
  PROVE  /\ row[v] \in Rows /\ vm[v] \in Machines /\ cand[v] \in Candidates
         /\ row[v] = NoRow <=> row[v].host = None
         /\ row[v] # NoRow => (row[v].charged <=> v \notin Resident) /\ (row[v].adopting => v \in Resident)
         /\ vm[v].pinned => row[v] # NoRow /\ vm[v].at = row[v].host
         /\ vm[v].on => vm[v].at # None /\ (vm[v].pinned \/ (v \in Resident /\ (row[v] = NoRow \/ row[v].adopting)))
         /\ v \notin Resident /\ vm[v].at # None => row[v] # NoRow /\ vm[v].at = row[v].host
         /\ cand[v].host = None <=> cand[v].source \in {None, "begun"}
<1>1. NoRow.host = None
  BY DEF NoRow
<1> QED BY <1>1 DEF PlanInv, TypeOK, RowsCharge, RunsPlaced, SamplesHold

\* A VM is in the plan of one job.
LEMMA OneOwner ==
  ASSUME NEW i \in Jobs, NEW j \in Jobs, NEW v, v \in Plan[i], v \in Plan[j]
  PROVE  i = j /\ v \in VMs
BY PlansPartition, PlacementSizes

\* The fields of what is not there.
LEMMA Nothing ==
  /\ NoRow \in Rows /\ NoRow.host = None /\ ~NoRow.charged /\ ~NoRow.released /\ ~NoRow.adopting
  /\ NoVM \in Machines /\ NoVM.at = None /\ ~NoVM.on /\ ~NoVM.pinned
  /\ NoCandidate \in Candidates /\ NoCandidate.host = None /\ NoCandidate.source = None /\ NoCandidate.late = {}
<1>1. 0 \in 0 .. Memory
  BY PlacementSizes
<1> QED BY <1>1 DEF NoRow, NoVM, NoCandidate, Rows, Machines, Candidates

\* Hosts keep their reserve when whatever is held next was held before, or takes no memory.
LEMMA ReserveStays ==
  ASSUME PlanInv, \A h \in Hosts : Held(h)' \subseteq Held(h) \cup Resident
  PROVE  ReserveKept'
<1> SUFFICES ASSUME NEW h \in Hosts PROVE MemoryMB(Held(h)') + Reserve <= Memory
  BY DEF ReserveKept, MemoryMB, Megabytes
<1>1. Held(h) \in SUBSET VMs /\ Held(h)' \in SUBSET VMs
  BY DEF Held, Running
<1>2. PICK S, T : S = Held(h)' /\ T = Held(h)
  OBVIOUS
<1>3. MemoryMB(S) <= MemoryMB(T) /\ MemoryMB(S) \in Nat /\ MemoryMB(T) \in Nat
  BY <1>1, <1>2, MemoryOfNone, MemoryType
<1>4. MemoryMB(T) + Reserve <= Memory
  BY <1>2 DEF PlanInv, ReserveKept
<1>5. Reserve \in Nat /\ Memory \in Nat
  BY PlacementSizes
<1> QED BY <1>2, <1>3, <1>4, <1>5

\* The same for the samples: what a sample must have seen does not grow.
LEMMA SampleStays ==
  ASSUME PlanInv, NEW v \in VMs, cand[v].host # None, cand'[v].host = cand[v].host,
         cand'[v].free = cand[v].free, Seen(v, cand[v].host)' \subseteq Seen(v, cand[v].host)
  PROVE  MemoryMB(Seen(v, cand[v].host)') + cand'[v].free <= Memory
<1>1. PICK h, S, T : h = cand[v].host /\ S = Seen(v, h)' /\ T = Seen(v, h)
  OBVIOUS
<1>2. T \in SUBSET VMs /\ S \in SUBSET T
  BY <1>1 DEF Seen, Running
<1>3. MemoryMB(S) <= MemoryMB(T) /\ MemoryMB(S) \in Nat /\ MemoryMB(T) \in Nat
  BY <1>2, MemoryGrows, MemoryType
<1>4. MemoryMB(T) + cand[v].free <= Memory
  BY <1>1 DEF PlanInv, SamplesHold
<1>5. cand[v].free \in Nat /\ Memory \in Nat
  BY OnePlaced, PlacementSizes DEF Candidates
<1> QED BY <1>1, <1>3, <1>4, <1>5

\* What a step may do, other than one that stores a plan or a sample: a VM
\* starts to run only where it is charged, no row is charged anew, and what is
\* released is late for every observation under way.
LEMMA PlanStep ==
  ASSUME PlanInv, TypeOK', PlansWhole', RowsCharge', RunsPlaced',
         \A v \in VMs :
            /\ cand'[v].host = None <=> cand'[v].source \in {None, "begun"}
            /\ cand'[v].host # None => /\ cand'[v].host = cand[v].host /\ cand'[v].free = cand[v].free
                                       /\ cand[v].late \subseteq cand'[v].late
                                       /\ \A u \in VMs : row'[u].released /\ ~row[u].released => u \in cand'[v].late,
         \A u \in VMs \ Resident :
            /\ vm'[u].on => \/ vm[u].on /\ vm'[u].at = vm[u].at
                            \/ row[u].charged /\ ~row[u].released /\ row[u].host = vm'[u].at
            /\ row'[u].charged /\ ~row'[u].released => /\ row[u].charged /\ ~row[u].released
                                                       /\ row'[u].host = row[u].host
  PROVE  PlanInv'
<1>1. \A h \in Hosts : Held(h)' \subseteq Held(h) \cup Resident
  BY DEF Held, Running
<1>2. ReserveKept'
  BY <1>1, ReserveStays
<1>3. ASSUME NEW v \in VMs, cand'[v].host # None PROVE MemoryMB(Seen(v, cand[v].host)') + cand'[v].free <= Memory
  <2>1. Seen(v, cand[v].host)' \subseteq Seen(v, cand[v].host)
    BY <1>3 DEF Seen, Running
  <2> QED BY <1>3, <2>1, SampleStays
<1>4. SamplesHold'
  BY <1>3 DEF SamplesHold, MemoryMB, Megabytes
<1> QED BY <1>2, <1>4 DEF PlanInv

\* What the invariant says of a job.
LEMMA OneJob ==
  ASSUME PlanInv, NEW j \in Jobs
  PROVE  /\ Plan[j] \subseteq VMs
         /\ (\A v \in Plan[j] : row[v] = NoRow) \/ (\A v \in Plan[j] : row[v] # NoRow)
         /\ job[j] = "planning" => Plan[j] # {} /\ \A v \in Plan[j] : row[v] = NoRow
         /\ job[j] = "planned" => \A v \in Plan[j] : row[v] # NoRow
         /\ job[j] \notin {"done", "failed"} => \A v \in Plan[j] : ~row[v].released
         /\ job[j] # "planning" => \A v \in Plan[j] : cand[v] = NoCandidate
BY PlacementSizes DEF PlanInv, PlansWhole

\* A job goes from one place to another, with its candidates or without.
LEMMA JobMoves ==
  ASSUME PlanInv, NEW j \in Jobs, NEW s \in {"queued", "planning", "planned", "failed", "manual"},
         job[j] \notin {"done", "failed"}, job' = [job EXCEPT ![j] = s], UNCHANGED <<row, vm, policy, replica>>,
         cand' = Forget(j) \/ (UNCHANGED cand /\ job[j] # "planning"),
         s = "planning" => Plan[j] # {} /\ \A v \in Plan[j] : row[v] = NoRow,
         s = "planned" => \A v \in Plan[j] : row[v] # NoRow
  PROVE  PlanInv'
<1>1. \A v \in VMs : /\ v \in Plan[j] => cand'[v] = NoCandidate
                     /\ v \notin Plan[j] => cand'[v] = cand[v]
  BY OneJob DEF Forget
<1>2. cand' \in [VMs -> Candidates]
  BY Nothing DEF PlanInv, TypeOK, Forget
<1>3. TypeOK'
  BY <1>2 DEF PlanInv, TypeOK
<1>4. RowsCharge' /\ RunsPlaced'
  BY DEF PlanInv, RowsCharge, RunsPlaced
<1>5. job \in [Jobs -> {"queued", "planning", "planned", "done", "failed", "manual"}]
  BY DEF PlanInv, TypeOK
<1>6. PlansWhole'
  <2> SUFFICES ASSUME NEW i \in Jobs
               PROVE  /\ (\A v \in Plan[i] : row[v] = NoRow) \/ (\A v \in Plan[i] : row[v] # NoRow)
                      /\ job'[i] = "planning" => Plan[i] # {} /\ \A v \in Plan[i] : row[v] = NoRow
                      /\ job'[i] = "planned" => \A v \in Plan[i] : row[v] # NoRow
                      /\ \A v \in Plan[i] : /\ row[v].released => job'[i] \in {"done", "failed"}
                                            /\ cand'[v] # NoCandidate => job'[i] = "planning"
    BY DEF PlansWhole
  <2>1. CASE i = j
    BY <1>1, <1>5, <2>1, OneJob
  <2>2. CASE i # j
    <3>1. job'[i] = job[i] /\ \A v \in Plan[i] : cand'[v] = cand[v]
      BY <1>1, <1>5, <2>2, OneOwner
    <3> QED BY <3>1 DEF PlanInv, PlansWhole
  <2> QED BY <2>1, <2>2
<1>7. \A v \in VMs : cand'[v] = NoCandidate \/ cand'[v] = cand[v]
  BY <1>1
<1> QED
  BY <1>3, <1>4, <1>6, <1>7, OnePlaced, Nothing, PlanStep

\* A VM changes.
LEMMA VMMoves ==
  ASSUME PlanInv, NEW v \in VMs, NEW new \in Machines, vm' = [vm EXCEPT ![v] = new],
         UNCHANGED <<row, job, cand, policy, replica>>,
         new.pinned => row[v] # NoRow /\ new.at = row[v].host,
         new.on => new.at # None /\ (new.pinned \/ (v \in Resident /\ (row[v] = NoRow \/ row[v].adopting))),
         v \notin Resident /\ new.at # None => row[v] # NoRow /\ new.at = row[v].host,
         v \notin Resident /\ new.on => \/ vm[v].on /\ vm[v].at = new.at
                                        \/ row[v].charged /\ ~row[v].released /\ row[v].host = new.at
  PROVE  PlanInv'
<1>1. vm' \in [VMs -> Machines] /\ vm'[v] = new /\ \A u \in VMs \ {v} : vm'[u] = vm[u]
  BY DEF PlanInv, TypeOK
<1>2. TypeOK' /\ PlansWhole' /\ RowsCharge'
  BY <1>1 DEF PlanInv, TypeOK, PlansWhole, RowsCharge
<1>3. RunsPlaced'
  BY <1>1 DEF PlanInv, RunsPlaced
<1> QED
  BY <1>1, <1>2, <1>3, OnePlaced, PlanStep

\* A job that starts, or starts over, plans or finds its whole plan stored.
LEMMA LoadKeepsPlan ==
  ASSUME PlanInv, NEW j \in Jobs, LoadVMPlacementPlan(j) PROVE PlanInv'
<1>1. CASE Planned(j) = Plan[j]
  <2>1. \A v \in Plan[j] : row[v] # NoRow
    BY <1>1 DEF Planned
  <2> QED BY <1>1, <2>1, JobMoves DEF LoadVMPlacementPlan
<1>2. CASE Planned(j) # Plan[j]
  <2>1. Plan[j] # {} /\ \A v \in Plan[j] : row[v] = NoRow
    BY <1>2, OneJob DEF Planned
  <2> QED BY <1>2, <2>1, JobMoves DEF LoadVMPlacementPlan
<1> QED BY <1>1, <1>2

\* A job whose VM is elsewhere stops for a person, and changes nothing.
LEMMA DriftKeepsPlan ==
  ASSUME PlanInv, NEW j \in Jobs, job[j] = "planned", Drifted(j) PROVE PlanInv'
BY JobMoves DEF Drifted

\* A job that cannot plan, or whose worker dies, drops its candidates.
LEMMA FailKeepsPlan ==
  ASSUME PlanInv, NEW j \in Jobs, PlanningFails(j) \/ Crash(j) PROVE PlanInv'
BY JobMoves DEF PlanningFails, Crash

\* Destruction leaves nothing to charge or to move.
LEMMA DestroyKeepsPlan ==
  ASSUME PlanInv, NEW v \in VMs, DestroyVMWithPlacement(v), UNCHANGED <<row, job, cand, policy, replica>>
  PROVE  PlanInv'
BY Nothing, VMMoves DEF DestroyVMWithPlacement

\* DRS moves only a VM that was there before and is not adopted yet.
LEMMA DRSKeepsPlan ==
  ASSUME PlanInv, NEW v \in VMs, DRSMoves(v) PROVE PlanInv'
<1>1. PICK h \in Hosts \ {vm[v].at} : vm' = [vm EXCEPT ![v].at = h]
  BY DEF DRSMoves
<1>2. PICK new : new = [vm[v] EXCEPT !.at = h]
  OBVIOUS
<1>3. vm[v] \in Machines
  BY OnePlaced
<1>4. new \in Machines /\ new.at = h /\ new.on = vm[v].on /\ new.pinned = vm[v].pinned
  BY <1>2, <1>3 DEF Machines
<1>5. vm' = [vm EXCEPT ![v] = new]
  BY <1>1, <1>2
<1>6. h # None
  BY PlansPartition DEF None
<1> QED
  BY <1>4, <1>5, <1>6, OnePlaced, VMMoves DEF DRSMoves

\* A clone appears where its row says, powered off.
LEMMA CloneKeepsPlan ==
  ASSUME PlanInv, NEW j \in Jobs, NEW v \in VMs, CloneVM(j, v) PROVE PlanInv'
<1>1. PICK new : new = [vm[v] EXCEPT !.at = row[v].host]
  OBVIOUS
<1>2. vm[v] \in Machines /\ row[v].host \in Hosts \cup {None}
  BY OnePlaced DEF Rows
<1>3. new \in Machines /\ new.at = row[v].host /\ new.on = vm[v].on /\ new.pinned = vm[v].pinned
  BY <1>1, <1>2 DEF Machines
<1>4. vm' = [vm EXCEPT ![v] = new]
  BY <1>1 DEF CloneVM
<1>5. ~vm[v].on /\ row[v] # NoRow
  BY OnePlaced, OneJob DEF CloneVM
<1> QED
  BY <1>3, <1>4, <1>5, OnePlaced, VMMoves DEF CloneVM

\* The override is only put on a VM that is on the host of its row.
LEMMA PinnedMachine ==
  ASSUME PlanInv, NEW v \in VMs
  PROVE  LET new == EnsureVMPlacementControl(v)
         IN  \/ new = NoVM
             \/ /\ new \in Machines /\ new.pinned /\ new.at = vm[v].at /\ new.on = vm[v].on
                /\ new.at = row[v].host
BY OnePlaced DEF EnsureVMPlacementControl, ValidateVMPlacement, Machines

\* The clone gets its override.
LEMMA ConfigureKeepsPlan ==
  ASSUME PlanInv, NEW j \in Jobs, NEW v \in VMs, ConfigureClonedVM(j, v) PROVE PlanInv'
<1>1. PICK new : new = EnsureVMPlacementControl(v)
  OBVIOUS
<1>2. vm' = [vm EXCEPT ![v] = new] /\ row[v] # NoRow /\ UNCHANGED <<row, job, cand, policy, replica>>
  BY <1>1, OneJob DEF ConfigureClonedVM
<1>3. CASE new = NoVM
  BY <1>2, <1>3, Nothing, VMMoves
<1>4. CASE new # NoVM
  <2>1. new \in Machines /\ new.pinned /\ new.at = vm[v].at /\ new.on = vm[v].on /\ new.at = row[v].host
    BY <1>1, <1>4, PinnedMachine
  <2> QED BY <1>2, <2>1, OnePlaced, VMMoves
<1> QED BY <1>3, <1>4

\* A VM is powered on where its row charges the host for it.
LEMMA PowerOnKeepsPlan ==
  ASSUME PlanInv, NEW j \in Jobs, NEW v \in VMs, PowerOnVM(j, v) PROVE PlanInv'
<1>1. CASE ValidateVMPlacementControl(v)
  <2>1. PICK new : new = [vm[v] EXCEPT !.on = TRUE]
    OBVIOUS
  <2>2. vm[v] \in Machines
    BY OnePlaced
  <2>3. new \in Machines /\ new.at = vm[v].at /\ new.on /\ new.pinned = vm[v].pinned
    BY <2>1, <2>2 DEF Machines
  <2>4. vm' = [vm EXCEPT ![v] = new] /\ UNCHANGED <<row, job, cand, policy, replica>>
    BY <1>1, <2>1 DEF PowerOnVM
  <2>5. vm[v].pinned /\ vm[v].at = row[v].host /\ row[v] # NoRow /\ ~row[v].released
    BY <1>1, OneJob DEF PowerOnVM, ValidateVMPlacementControl, ValidateVMPlacement
  <2> QED BY <2>3, <2>4, <2>5, OnePlaced, VMMoves
<1>2. CASE ~ValidateVMPlacementControl(v)
  BY <1>2, DriftKeepsPlan DEF PowerOnVM
<1> QED BY <1>1, <1>2

\* A job that plans takes the next step for one of its VMs.
LEMMA CandidateMoves ==
  ASSUME PlanInv, NEW j \in Jobs, NEW v \in Plan[j], job[j] = "planning",
         NEW new \in Candidates, cand' = [cand EXCEPT ![v] = new], UNCHANGED <<row, vm, job, policy, replica>>,
         new.host = None <=> new.source \in {None, "begun"},
         new.host # None => MemoryMB({u \in Running(new.host) \ Resident : row[u].released /\ u \notin new.late})
                              + new.free <= Memory
  PROVE  PlanInv'
<1>1. v \in VMs /\ cand' \in [VMs -> Candidates] /\ cand'[v] = new /\ \A u \in VMs \ {v} : cand'[u] = cand[u]
  BY PlacementSizes DEF PlanInv, TypeOK
<1>2. TypeOK' /\ RowsCharge' /\ RunsPlaced'
  BY <1>1 DEF PlanInv, TypeOK, RowsCharge, RunsPlaced
<1>3. PlansWhole'
  <2>1. \A i \in Jobs : v \in Plan[i] => i = j
    BY OneOwner
  <2> QED BY <1>1, <2>1, OneJob DEF PlanInv, PlansWhole
<1>4. \A h \in Hosts : Held(h)' \subseteq Held(h) \cup Resident
  BY DEF Held, Running
<1>5. ReserveKept'
  BY <1>4, ReserveStays
<1>6. new.host # None => MemoryMB(Seen(v, new.host)') + new.free <= Memory
  <2>1. Seen(v, new.host)' = {w \in Running(new.host) \ Resident : row[w].released /\ w \notin new.late}
    BY <1>1 DEF Seen, Running
  <2> QED BY <2>1
<1>7. ASSUME NEW u \in VMs \ {v}, cand[u].host # None PROVE MemoryMB(Seen(u, cand[u].host)') + cand[u].free <= Memory
  <2>1. cand'[u] = cand[u]
    BY <1>1
  <2>2. Seen(u, cand[u].host)' \subseteq Seen(u, cand[u].host)
    BY <2>1 DEF Seen, Running
  <2> QED BY <1>7, <2>1, <2>2, SampleStays
<1>8. SamplesHold'
  <2>1. \A u \in VMs : cand[u].host = None <=> cand[u].source \in {None, "begun"}
    BY OnePlaced
  <2> QED BY <1>1, <1>6, <1>7, <2>1 DEF SamplesHold, MemoryMB, Megabytes
<1> QED BY <1>2, <1>3, <1>5, <1>8 DEF PlanInv

\* An observation begins with nothing seen and nothing late.
LEMMA BeginKeepsPlan ==
  ASSUME PlanInv, NEW j \in Jobs, NEW v \in VMs, BeginHostCapacityObservation(j, v) PROVE PlanInv'
<1>1. PICK new : new = [cand[v] EXCEPT !.source = "begun"]
  OBVIOUS
<1>2. cand[v] \in Candidates /\ cand[v].host = None
  BY OnePlaced, Nothing DEF BeginHostCapacityObservation
<1>3. new \in Candidates /\ new.host = None /\ new.source = "begun"
  BY <1>1, <1>2 DEF Candidates
<1>4. cand' = [cand EXCEPT ![v] = new] /\ v \in Plan[j] /\ job[j] = "planning"
  BY <1>1 DEF BeginHostCapacityObservation, Turn, Unresolved
<1> QED BY <1>3, <1>4, CandidateMoves DEF BeginHostCapacityObservation

\* A sample: what runs on the host is held there, so its memory is counted.
LEMMA PrepareKeepsPlan ==
  ASSUME PlanInv, NEW j \in Jobs, NEW v \in VMs, PrepareCandidate(j, v) PROVE PlanInv'
<1>1. PICK h \in ResolveClonePlacement(j, v), s \in CloneSources(v) :
        cand' = [cand EXCEPT ![v] = [@ EXCEPT !.host = h, !.free = HostFreeMemoryMB(h), !.source = s]]
  BY DEF PrepareCandidate
<1>2. PICK new : new = [cand[v] EXCEPT !.host = h, !.free = HostFreeMemoryMB(h), !.source = s]
  OBVIOUS
<1>3. h \in Hosts /\ h # None /\ s \in {"legacy", "replica"}
  BY PlansPartition
  DEF ResolveClonePlacement, ResolveExistingClonePlacement, ResolvePlacement, CloneSources, None
<1>4. PICK R, S : R = Running(h) /\ S = {u \in R \ Resident : row[u].released /\ u \notin cand[v].late}
  OBVIOUS
<1>5. R \in SUBSET VMs /\ S \in SUBSET R /\ Held(h) \in SUBSET VMs /\ R \subseteq Held(h)
  BY <1>4 DEF Running, Held
<1>6. MemoryMB(R) <= MemoryMB(Held(h)) /\ MemoryMB(S) <= MemoryMB(R)
  BY <1>5, MemoryGrows
<1>7. MemoryMB(R) \in Nat /\ MemoryMB(S) \in Nat /\ MemoryMB(Held(h)) \in Nat
  BY <1>5, MemoryType
<1>8. MemoryMB(Held(h)) + Reserve <= Memory /\ Reserve \in Nat /\ Memory \in Nat
  BY <1>3, PlacementSizes DEF PlanInv, ReserveKept
<1>9. PICK f : f = HostFreeMemoryMB(h)
  OBVIOUS
<1>10. f = Memory - MemoryMB(R)
  BY <1>4, <1>9 DEF HostFreeMemoryMB, HostUsedMemoryMB
<1>11. f \in 0 .. Memory /\ MemoryMB(S) + f <= Memory
  BY <1>6, <1>7, <1>8, <1>10
<1>12. cand[v] \in Candidates
  BY OnePlaced
<1>13. new = [cand[v] EXCEPT !.host = h, !.free = f, !.source = s]
  BY <1>2, <1>9
<1>14. new \in Candidates /\ new.host = h /\ new.free = f /\ new.source = s /\ new.late = cand[v].late
  BY <1>3, <1>11, <1>12, <1>13 DEF Candidates
<1>15. cand' = [cand EXCEPT ![v] = new] /\ v \in Plan[j] /\ job[j] = "planning"
  BY <1>1, <1>2 DEF PrepareCandidate
<1>16. S = {u \in Running(new.host) \ Resident : row[u].released /\ u \notin new.late}
  BY <1>4, <1>14
<1>17. new.host # None /\ new.source \notin {None, "begun"}
  BY <1>3, <1>14 DEF None
<1>18. MemoryMB({u \in Running(new.host) \ Resident : row[u].released /\ u \notin new.late}) + new.free <= Memory
  BY <1>11, <1>14, <1>16
<1>19. UNCHANGED <<row, vm, job, policy, replica>>
  BY DEF PrepareCandidate
<1> QED BY <1>14, <1>15, <1>17, <1>18, <1>19, CandidateMoves

\* An adopted VM has its override before its row says so.
LEMMA EnforceKeepsPlan ==
  ASSUME PlanInv, NEW j \in Jobs, NEW v \in VMs, EnforceLegacyVMPlacement(j, v) PROVE PlanInv'
<1>1. PICK new : new = EnsureVMPlacementControl(v)
  OBVIOUS
<1>2. CASE new # NoVM
  <2>1. new \in Machines /\ new.pinned /\ new.at = vm[v].at /\ new.on = vm[v].on /\ new.at = row[v].host
    BY <1>1, <1>2, PinnedMachine
  <2>2. vm' = [vm EXCEPT ![v] = new] /\ UNCHANGED <<job, cand, policy, replica>>
    BY <1>1, <1>2 DEF EnforceLegacyVMPlacement
  <2>3. row[v] \in Rows /\ row[v] # NoRow /\ row[v].adopting /\ v \in Resident /\ row[v].host # None
    BY OnePlaced, OneJob DEF EnforceLegacyVMPlacement
  <2>4. PICK r : r = row'[v]
    OBVIOUS
  <2>5. row \in [VMs -> Rows]
    BY DEF PlanInv, TypeOK
  <2>6. \A u \in VMs \ {v} : row'[u] = row[u]
    BY <1>1, <1>2, <2>5 DEF EnforceLegacyVMPlacement, CompleteLegacyVMPlacementAdoption
  <2>7. r = row[v] \/ r = [row[v] EXCEPT !.adopting = FALSE]
    BY <1>1, <1>2, <2>4, <2>5 DEF EnforceLegacyVMPlacement, CompleteLegacyVMPlacementAdoption
  <2>8. r \in Rows /\ r.host = row[v].host /\ r.charged = row[v].charged /\ r.released = row[v].released
    BY <2>3, <2>7 DEF Rows
  <2>9. r # NoRow
    BY <2>3, <2>8, Nothing
  <2>10. row' \in [VMs -> Rows]
    BY <1>1, <1>2, <2>4, <2>5, <2>8 DEF EnforceLegacyVMPlacement, CompleteLegacyVMPlacementAdoption
  <2>11. vm' \in [VMs -> Machines] /\ vm'[v] = new /\ \A u \in VMs \ {v} : vm'[u] = vm[u]
    BY <2>1, <2>2 DEF PlanInv, TypeOK
  <2>12. TypeOK'
    BY <2>2, <2>10, <2>11 DEF PlanInv, TypeOK
  <2>13. \A u \in VMs : (row'[u] = NoRow <=> row[u] = NoRow) /\ (row'[u].released <=> row[u].released)
                        /\ row'[u].host = row[u].host /\ row'[u].charged = row[u].charged
    BY <2>3, <2>4, <2>6, <2>8, <2>9
  <2>14. PlansWhole'
    <3>1. \A i \in Jobs : Plan[i] \subseteq VMs
      BY PlacementSizes
    <3> QED BY <2>2, <2>13, <3>1 DEF PlanInv, PlansWhole
  <2>15. \A u \in VMs : row'[u].adopting => row[u].adopting
    BY <2>3, <2>6
  <2>16. RowsCharge'
    BY <2>13, <2>15 DEF PlanInv, RowsCharge
  <2>17. RunsPlaced'
    BY <2>1, <2>3, <2>6, <2>11, <2>13 DEF PlanInv, RunsPlaced
  <2> QED BY <2>1, <2>2, <2>3, <2>11, <2>12, <2>13, <2>14, <2>16, <2>17, OnePlaced, PlanStep
<1>3. CASE new = NoVM
  BY <1>1, <1>3, DriftKeepsPlan DEF EnforceLegacyVMPlacement
<1> QED BY <1>2, <1>3

\* A job ends and releases what it reserved.
LEMMA ReleaseKeepsPlan ==
  ASSUME PlanInv, NEW j \in Jobs, NEW s \in {"done", "failed"}, job[j] = "planned", job' = [job EXCEPT ![j] = s],
         Release({v \in Plan[j] : ~row[v].released}), UNCHANGED <<vm, policy, replica>>
  PROVE  PlanInv'
<1>1. PICK S : S = {v \in Plan[j] : ~row[v].released}
  OBVIOUS
<1>2. S \subseteq VMs /\ S \subseteq Plan[j]
  BY <1>1, PlacementSizes
<1>3. row \in [VMs -> Rows] /\ cand \in [VMs -> Candidates]
      /\ job \in [Jobs -> {"queued", "planning", "planned", "done", "failed", "manual"}]
  BY DEF PlanInv, TypeOK
<1>4. ASSUME NEW u \in VMs
      PROVE  /\ row'[u] \in Rows /\ row'[u].host = row[u].host /\ row'[u].charged = row[u].charged
             /\ row'[u].adopting = row[u].adopting /\ row'[u].source = row[u].source
             /\ row'[u].released <=> row[u].released \/ u \in S
             /\ row'[u] = NoRow <=> row[u] = NoRow
  <2>1. row'[u] = IF u \in S THEN [row[u] EXCEPT !.released = TRUE] ELSE row[u]
    BY <1>1, <1>4 DEF Release
  <2>2. row[u] \in Rows
    BY <1>3, <1>4
  <2>3. /\ row'[u] \in Rows /\ row'[u].host = row[u].host /\ row'[u].charged = row[u].charged
        /\ row'[u].adopting = row[u].adopting /\ row'[u].source = row[u].source
        /\ row'[u].released <=> row[u].released \/ u \in S
    BY <2>1, <2>2 DEF Rows
  <2>4. row[u] = NoRow => u \notin S
    BY <1>2, OneJob
  <2>5. row'[u] = NoRow <=> row[u] = NoRow
    BY <1>4, <2>1, <2>3, <2>4, OnePlaced, Nothing
  <2> QED BY <2>3, <2>5
<1>5. ASSUME NEW u \in VMs
      PROVE  /\ cand'[u] \in Candidates /\ cand'[u].host = cand[u].host /\ cand'[u].free = cand[u].free
             /\ cand'[u].source = cand[u].source
             /\ cand[u] = NoCandidate => cand'[u] = NoCandidate
             /\ cand[u] # NoCandidate => cand'[u].late = cand[u].late \cup S
  <2>1. cand'[u] = IF cand[u] = NoCandidate THEN cand[u] ELSE [cand[u] EXCEPT !.late = @ \cup S]
    BY <1>1, <1>5 DEF Release
  <2>2. cand[u] \in Candidates
    BY <1>3, <1>5
  <2>3. CASE cand[u] = NoCandidate
    BY <2>1, <2>2, <2>3
  <2>4. CASE cand[u] # NoCandidate
    <3>1. cand'[u] = [cand[u] EXCEPT !.late = cand[u].late \cup S]
      BY <2>1, <2>4
    <3> QED BY <1>2, <2>2, <2>4, <3>1 DEF Candidates
  <2> QED BY <2>3, <2>4
<1>6. row' \in [VMs -> Rows] /\ cand' \in [VMs -> Candidates]
  BY <1>4, <1>5 DEF Release
<1>7. TypeOK'
  BY <1>6 DEF PlanInv, TypeOK
<1>8. PlansWhole'
  <2> SUFFICES ASSUME NEW i \in Jobs
               PROVE  /\ (\A v \in Plan[i] : row'[v] = NoRow) \/ (\A v \in Plan[i] : row'[v] # NoRow)
                      /\ job'[i] = "planning" => Plan[i] # {} /\ \A v \in Plan[i] : row'[v] = NoRow
                      /\ job'[i] = "planned" => \A v \in Plan[i] : row'[v] # NoRow
                      /\ \A v \in Plan[i] : /\ row'[v].released => job'[i] \in {"done", "failed"}
                                            /\ cand'[v] # NoCandidate => job'[i] = "planning"
    BY DEF PlansWhole
  <2>1. CASE i = j
    BY <1>3, <1>4, <1>5, <2>1, OneJob
  <2>2. CASE i # j
    <3>1. job'[i] = job[i] /\ \A v \in Plan[i] : v \in VMs /\ v \notin S
      BY <1>2, <1>3, <2>2, OneOwner
    <3> QED BY <1>4, <1>5, <3>1 DEF PlanInv, PlansWhole
  <2> QED BY <2>1, <2>2
<1>9. RowsCharge' /\ RunsPlaced'
  BY <1>4 DEF PlanInv, RowsCharge, RunsPlaced
<1>10. ASSUME NEW v \in VMs
       PROVE  /\ cand'[v].host = None <=> cand'[v].source \in {None, "begun"}
              /\ cand'[v].host # None => /\ cand'[v].host = cand[v].host /\ cand'[v].free = cand[v].free
                                         /\ cand[v].late \subseteq cand'[v].late
                                         /\ \A u \in VMs : row'[u].released /\ ~row[u].released => u \in cand'[v].late
  BY <1>4, <1>5, <1>10, OnePlaced, Nothing
<1>11. \A u \in VMs \ Resident :
            /\ vm'[u].on => vm[u].on /\ vm'[u].at = vm[u].at
            /\ row'[u].charged /\ ~row'[u].released => /\ row[u].charged /\ ~row[u].released
                                                       /\ row'[u].host = row[u].host
  BY <1>4
<1> QED BY <1>7, <1>8, <1>9, <1>10, <1>11, PlanStep

\* A job ends with its VMs running, or with none of them left.
LEMMA EndKeepsPlan ==
  ASSUME PlanInv, NEW j \in Jobs, ReleaseVMPlacementCapacity(j) \/ Compensate(j) PROVE PlanInv'
<1>1. CASE ReleaseVMPlacementCapacity(j)
  BY <1>1, ReleaseKeepsPlan DEF ReleaseVMPlacementCapacity
<1>2. CASE Compensate(j)
  <2>1. ASSUME NEW v \in Plan[j], DestroyVMWithPlacement(v), UNCHANGED <<row, job, cand>> PROVE PlanInv'
    <3>1. v \in VMs
      BY PlacementSizes
    <3> QED BY <1>2, <2>1, <3>1, DestroyKeepsPlan DEF Compensate
  <2>2. ASSUME Release({v \in Plan[j] : ~row[v].released}), job' = [job EXCEPT ![j] = "failed"], UNCHANGED vm
        PROVE  PlanInv'
    BY <1>2, <2>2, ReleaseKeepsPlan DEF Compensate
  <2> QED BY <1>2, <2>1, <2>2 DEF Compensate
<1> QED BY <1>1, <1>2

\* Replicas and their policy do not touch the plans.
LEMMA SourceKeepsPlan ==
  ASSUME PlanInv, UNCHANGED <<row, vm, job, cand>>, TypeOK' PROVE PlanInv'
<1>1. PlansWhole' /\ RowsCharge' /\ RunsPlaced'
  BY DEF PlanInv, PlansWhole, RowsCharge, RunsPlaced
<1> QED BY <1>1, OnePlaced, PlanStep

\* What one host holds once a plan is stored: with the memory the plan's own
\* sample has seen and what the others reserve, room for the plan was left.
LEMMA AdmittedFits ==
  ASSUME PlanInv, NEW j \in Jobs, job[j] = "planning", AdmitHostCapacity(j), NEW h \in Hosts,
         NEW S \in SUBSET VMs,
         S \subseteq Held(h) \cup Resident \cup (OnHost(j, h) \ Resident)
  PROVE  MemoryMB(S) + Reserve <= Memory
<1>1. PICK N, A, H : N = OnHost(j, h) \ Resident /\ A = ActiveReservations(j, h) /\ H = Held(h)
  OBVIOUS
<1>2. N \in SUBSET VMs /\ A \in SUBSET VMs /\ H \in SUBSET VMs
  BY <1>1, PlacementSizes DEF OnHost, ActiveReservations, Held, Running
<1>3. MemoryMB(N) \in Nat /\ MemoryMB(A) \in Nat /\ MemoryMB(H) \in Nat /\ MemoryMB(S) \in Nat
      /\ Reserve \in Nat /\ Memory \in Nat
  BY <1>2, MemoryType, PlacementSizes
<1>4. CASE Requested(j, h) = 0
  <2>1. MemoryMB(N) = 0
    BY <1>1, <1>4 DEF Requested
  <2>2. H \cup N \in SUBSET VMs /\ S \subseteq (H \cup N) \cup Resident
    BY <1>1, <1>2
  <2>3. MemoryMB(S) <= MemoryMB(H \cup N) /\ MemoryMB(H \cup N) \in Nat
    BY <2>2, MemoryOfNone, MemoryType
  <2>4. MemoryMB(H \cup N) <= MemoryMB(H) + MemoryMB(N)
    BY <1>2, MemoryAdds
  <2>5. MemoryMB(H) + Reserve <= Memory
    BY <1>1 DEF PlanInv, ReserveKept
  <2> QED BY <1>3, <2>1, <2>3, <2>4, <2>5
<1>5. CASE Requested(j, h) # 0 /\ N = {}
  <2>1. S \subseteq H \cup Resident
    BY <1>1, <1>5
  <2>2. MemoryMB(S) <= MemoryMB(H)
    BY <1>2, <2>1, MemoryOfNone
  <2>3. MemoryMB(H) + Reserve <= Memory
    BY <1>1 DEF PlanInv, ReserveKept
  <2> QED BY <1>3, <2>2, <2>3
<1>6. CASE Requested(j, h) # 0 /\ N # {}
  <2>1. PICK v \in N : TRUE
    BY <1>6
  <2>2. v \in Plan[j] /\ cand[v].host = h /\ v \in OnHost(j, h) /\ v \in VMs /\ h # None
    BY <1>1, <1>2, PlansPartition DEF OnHost, None
  <2>3. PICK W : W = Seen(v, h)
    OBVIOUS
  <2>4. W \in SUBSET VMs /\ MemoryMB(W) \in Nat
    BY <2>3, MemoryType DEF Seen, Running
  <2>5. MemoryMB(W) + cand[v].free <= Memory /\ cand[v].free \in Nat
    BY <2>2, <2>3, OnePlaced DEF PlanInv, SamplesHold, Candidates
  <2>6. cand[v].free >= MemoryMB(A) + Reserve + MemoryMB(N)
    BY <1>1, <1>6, <2>2 DEF AdmitHostCapacity, ObservedAtLeast, Requested
  <2>7. H \subseteq (W \cup A) \cup Resident
    <3> SUFFICES ASSUME NEW u \in H, u \notin Resident PROVE u \in W \/ u \in A
      OBVIOUS
    <3>1. u \in VMs
      BY <1>2
    <3>2. row[u] # NoRow /\ row[u].host = h /\ row[u].charged
      BY <1>1, <3>1, OnePlaced, Nothing DEF Held, Running
    <3>3. u \notin Plan[j]
      BY <3>2, OneJob
    <3>4. CASE ~row[u].released
      BY <1>1, <3>1, <3>2, <3>3, <3>4 DEF ActiveReservations
    <3>5. CASE row[u].released /\ u \in cand[v].late
      BY <1>1, <2>2, <3>1, <3>2, <3>3, <3>5 DEF ActiveReservations, ReleasedSince
    <3>6. CASE row[u].released /\ u \notin cand[v].late
      BY <1>1, <2>3, <3>6 DEF Held, Seen
    <3> QED BY <3>4, <3>5, <3>6
  <2>8. W \cup A \in SUBSET VMs /\ (W \cup A) \cup N \in SUBSET VMs /\ S \subseteq ((W \cup A) \cup N) \cup Resident
    BY <1>1, <1>2, <2>4, <2>7
  <2>9. MemoryMB(S) <= MemoryMB((W \cup A) \cup N)
    BY <2>8, MemoryOfNone
  <2>10. MemoryMB((W \cup A) \cup N) <= MemoryMB(W \cup A) + MemoryMB(N) /\ MemoryMB(W \cup A) <= MemoryMB(W) + MemoryMB(A)
    BY <1>2, <2>4, <2>8, MemoryAdds
  <2>11. MemoryMB(W \cup A) \in Nat /\ MemoryMB((W \cup A) \cup N) \in Nat
    BY <2>8, MemoryType
  <2> QED BY <1>3, <2>4, <2>5, <2>6, <2>9, <2>10, <2>11
<1> QED BY <1>4, <1>5, <1>6

\* A plan is stored whole, or the job fails or waits.
LEMMA StoreKeepsPlan ==
  ASSUME PlanInv, NEW j \in Jobs, PrepareVMPlacementPlan(j) PROVE PlanInv'
<1>0. job[j] = "planning" /\ cand' = Forget(j) /\ UNCHANGED <<vm, policy, replica>>
  BY DEF PrepareVMPlacementPlan
<1>1. CASE UNCHANGED row /\ job' \in {[job EXCEPT ![j] = s] : s \in {"queued", "failed"}}
  BY <1>0, <1>1, JobMoves
<1>2. CASE /\ AdmitHostCapacity(j)
           /\ row' = [v \in VMs |-> IF v \in Plan[j]
                        THEN [host |-> cand[v].host, charged |-> v \notin Resident, released |-> FALSE,
                              adopting |-> v \in Resident, source |-> cand[v].source]
                        ELSE row[v]]
           /\ job' = [job EXCEPT ![j] = "planned"]
  <2>1. Plan[j] \subseteq VMs /\ (\A v \in Plan[j] : row[v] = NoRow)
    BY <1>0, OneJob
  <2>2. \A v \in VMs : /\ v \in Plan[j] => cand'[v] = NoCandidate
                       /\ v \notin Plan[j] => cand'[v] = cand[v] /\ row'[v] = row[v]
    BY <1>0, <1>2 DEF Forget
  <2>3. ASSUME NEW v \in Plan[j]
        PROVE  /\ row'[v] \in Rows /\ row'[v].host = cand[v].host /\ cand[v].host \in Hosts /\ row'[v] # NoRow
               /\ row'[v].charged <=> v \notin Resident
               /\ ~row'[v].released
               /\ row'[v].adopting <=> v \in Resident
    <3>1. v \in VMs /\ cand[v].host # None
      BY <2>1, <2>3 DEF PrepareVMPlacementPlan, Unresolved
    <3>2. cand[v].host \in Hosts /\ cand[v].source \in {None, "legacy", "replica"}
      BY <3>1, OnePlaced DEF Candidates
    <3>3. row'[v] = [host |-> cand[v].host, charged |-> v \notin Resident, released |-> FALSE,
                     adopting |-> v \in Resident, source |-> cand[v].source]
      BY <1>2, <3>1
    <3>4. row'[v] \in Rows
      BY <3>2, <3>3 DEF Rows
    <3>5. row'[v].host = cand[v].host
      BY <3>3
    <3>6. row'[v] # NoRow
      BY <3>1, <3>5, Nothing
    <3>7. PICK r : r = row'[v]
      OBVIOUS
    <3>8. CASE v \in Resident
      <4>1. r = [host |-> cand[v].host, charged |-> FALSE, released |-> FALSE, adopting |-> TRUE, source |-> cand[v].source]
        BY <3>3, <3>7, <3>8
      <4>2. ~r.charged /\ ~r.released /\ r.adopting
        BY <4>1
      <4> QED BY <3>2, <3>4, <3>5, <3>6, <3>7, <3>8, <4>2
    <3>9. CASE v \notin Resident
      <4>1. (v \notin Resident) = TRUE /\ (v \in Resident) = FALSE
        BY <3>9
      <4>2. r = [host |-> cand[v].host, charged |-> TRUE, released |-> FALSE, adopting |-> FALSE, source |-> cand[v].source]
        BY <3>3, <3>7, <4>1
      <4>3. r.charged /\ ~r.released /\ ~r.adopting
        BY <4>2
      <4> QED BY <3>2, <3>4, <3>5, <3>6, <3>7, <3>9, <4>3
    <3> QED BY <3>8, <3>9
  <2>4. row' \in [VMs -> Rows] /\ cand' \in [VMs -> Candidates]
    <3>1. \A v \in VMs : row'[v] \in Rows /\ cand'[v] \in Candidates
      BY <2>2, <2>3, OnePlaced, Nothing
    <3> QED BY <1>0, <1>2, <3>1 DEF Forget
  <2>5. job \in [Jobs -> {"queued", "planning", "planned", "done", "failed", "manual"}]
    BY DEF PlanInv, TypeOK
  <2>6. TypeOK'
    BY <1>0, <1>2, <2>4 DEF PlanInv, TypeOK
  <2>7. PlansWhole'
    <3> SUFFICES ASSUME NEW i \in Jobs
                 PROVE  /\ (\A v \in Plan[i] : row'[v] = NoRow) \/ (\A v \in Plan[i] : row'[v] # NoRow)
                        /\ job'[i] = "planning" => Plan[i] # {} /\ \A v \in Plan[i] : row'[v] = NoRow
                        /\ job'[i] = "planned" => \A v \in Plan[i] : row'[v] # NoRow
                        /\ \A v \in Plan[i] : /\ row'[v].released => job'[i] \in {"done", "failed"}
                                              /\ cand'[v] # NoCandidate => job'[i] = "planning"
      BY DEF PlansWhole
    <3>1. CASE i = j
      <4>1. job'[j] = "planned" /\ \A v \in Plan[j] : cand'[v] = NoCandidate
        BY <1>2, <2>1, <2>2, <2>5
      <4> QED BY <2>3, <3>1, <4>1
    <3>2. CASE i # j
      <4>1. job'[i] = job[i] /\ \A v \in Plan[i] : cand'[v] = cand[v] /\ row'[v] = row[v]
        BY <1>2, <2>2, <2>5, <3>2, OneOwner
      <4> QED BY <4>1 DEF PlanInv, PlansWhole
    <3> QED BY <3>1, <3>2
  <2>8. RowsCharge'
    BY <2>2, <2>3, PlansPartition DEF PlanInv, RowsCharge, None
  <2>9. RunsPlaced'
    <3>1. ASSUME NEW v \in Plan[j] PROVE ~vm[v].pinned /\ (v \notin Resident => vm[v].at = None /\ ~vm[v].on)
      BY <2>1, <3>1, OnePlaced
    <3> QED BY <1>0, <2>1, <2>2, <2>3, <3>1 DEF PlanInv, RunsPlaced
  <2>10. ASSUME NEW h \in Hosts PROVE MemoryMB(Held(h)') + Reserve <= Memory
    <3>1. PICK S : S = Held(h)'
      OBVIOUS
    <3>2. S \in SUBSET VMs /\ S \subseteq Held(h) \cup Resident \cup (OnHost(j, h) \ Resident)
      BY <1>0, <2>2, <2>3, <3>1 DEF Held, Running, OnHost
    <3> QED BY <1>0, <1>2, <3>1, <3>2, AdmittedFits
  <2>11. ReserveKept'
    BY <2>10 DEF ReserveKept, MemoryMB, Megabytes
  <2>12. ASSUME NEW v \in VMs, cand'[v].host # None PROVE MemoryMB(Seen(v, cand[v].host)') + cand'[v].free <= Memory
    <3>1. cand'[v] = cand[v]
      BY <2>2, <2>12, Nothing
    <3>2. Seen(v, cand[v].host)' \subseteq Seen(v, cand[v].host)
      BY <1>0, <2>2, <2>3, <3>1 DEF Seen, Running
    <3> QED BY <2>12, <3>1, <3>2, SampleStays
  <2>13. \A v \in VMs : /\ cand'[v].host = None <=> cand'[v].source \in {None, "begun"}
                        /\ cand'[v].host # None => cand'[v].host = cand[v].host
    BY <2>2, OnePlaced, Nothing
  <2>14. SamplesHold'
    BY <2>12, <2>13 DEF SamplesHold, MemoryMB, Megabytes
  <2> QED BY <2>6, <2>7, <2>8, <2>9, <2>11, <2>14 DEF PlanInv
<1> QED BY <1>1, <1>2 DEF PrepareVMPlacementPlan

\* At the start only resident VMs run, and they are charged nothing.
LEMMA InitPlan == Init => PlanInv
<1> SUFFICES ASSUME Init PROVE PlanInv
  OBVIOUS
<1>1. \A v \in VMs : row[v] = NoRow /\ cand[v] = NoCandidate
  BY DEF Init
<1>2. PICK M : M = [at : Hosts, on : {TRUE}, pinned : {FALSE}]
  OBVIOUS
<1>3. vm \in [VMs -> {NoVM} \cup M] /\ \A v \in VMs : vm[v] # NoVM <=> v \in Resident
  BY <1>2 DEF Init
<1>4. \A m \in M : m \in Machines /\ m.at # None /\ ~m.pinned
  BY <1>2, PlansPartition DEF Machines, None
<1>5. \A v \in VMs : vm[v] \in Machines /\ ~vm[v].pinned /\ (vm[v].on => vm[v].at # None /\ v \in Resident)
                     /\ (v \notin Resident => vm[v].at = None)
  BY <1>3, <1>4, Nothing
<1>6. TypeOK
  BY <1>3, <1>5, Nothing DEF Init, TypeOK
<1>7. PlansWhole
  <2>1. \A j \in Jobs : Plan[j] \subseteq VMs /\ job[j] = "queued"
    BY PlacementSizes DEF Init
  <2> QED BY <1>1, <2>1, Nothing DEF PlansWhole
<1>8. RowsCharge /\ RunsPlaced
  BY <1>1, <1>5 DEF RowsCharge, RunsPlaced
<1>9. SamplesHold
  BY <1>1, Nothing DEF SamplesHold
<1>10. ReserveKept
  <2> SUFFICES ASSUME NEW h \in Hosts PROVE MemoryMB(Held(h)) + Reserve <= Memory
    BY DEF ReserveKept
  <2>1. PICK S, T : S = Held(h) /\ T = {}
    OBVIOUS
  <2>2. S \in SUBSET VMs /\ T \in SUBSET VMs /\ S \subseteq T \cup Resident
    BY <1>1, <1>5, <2>1, Nothing DEF Held, Running
  <2>3. MemoryMB(S) <= MemoryMB(T) /\ MemoryMB(S) \in Nat
    BY <2>2, MemoryOfNone, MemoryType
  <2>4. Megabytes(T) = {}
    BY <2>1 DEF Megabytes
  <2>5. MemoryMB(T) = 0
    BY <2>4, FS_EmptySet DEF MemoryMB
  <2> QED BY <2>1, <2>3, <2>5, PlacementSizes
<1> QED BY <1>6, <1>7, <1>8, <1>9, <1>10 DEF PlanInv

\* Every step of a job, of vCenter and of the administrator keeps the invariant.
LEMMA NextKeepsPlan == PlanInv /\ [Next]_vars => PlanInv'
<1> SUFFICES ASSUME PlanInv, [Next]_vars PROVE PlanInv'
  OBVIOUS
<1>1. ASSUME NEW j \in Jobs, Work(j) PROVE PlanInv'
  <2>1. ASSUME LoadVMPlacementPlan(j) \/ PrepareVMPlacementPlan(j) \/ PlanningFails(j) \/ Crash(j) PROVE PlanInv'
    BY <2>1, LoadKeepsPlan, StoreKeepsPlan, FailKeepsPlan
  <2>2. ASSUME ReleaseVMPlacementCapacity(j) \/ Compensate(j) PROVE PlanInv'
    BY <2>2, EndKeepsPlan
  <2>3. ASSUME ManualCleanup(j) PROVE PlanInv'
    BY <2>3, DriftKeepsPlan DEF ManualCleanup
  <2>4. ASSUME NEW v \in VMs, BeginHostCapacityObservation(j, v) \/ PrepareCandidate(j, v) PROVE PlanInv'
    BY <2>4, BeginKeepsPlan, PrepareKeepsPlan
  <2>5. ASSUME NEW v \in VMs,
               EnforceLegacyVMPlacement(j, v) \/ CloneVM(j, v) \/ ConfigureClonedVM(j, v) \/ PowerOnVM(j, v)
        PROVE  PlanInv'
    BY <2>5, EnforceKeepsPlan, CloneKeepsPlan, ConfigureKeepsPlan, PowerOnKeepsPlan
  <2> QED BY <1>1, <2>1, <2>2, <2>3, <2>4, <2>5 DEF Work
<1>2. ASSUME NEW v \in VMs, DestroyVM(v) \/ DRSMoves(v) PROVE PlanInv'
  BY <1>2, DestroyKeepsPlan, DRSKeepsPlan DEF DestroyVM
<1>3. ASSUME \/ CreateTemplateSourceReplica \/ UpdateTemplateSourceReplicaValidation
             \/ DeleteTemplateSourceReplica \/ UNCHANGED vars
      PROVE  PlanInv'
  <2>1. UNCHANGED <<row, vm, job, cand>>
    BY <1>3
    DEF CreateTemplateSourceReplica, UpdateTemplateSourceReplicaValidation,
        DeleteTemplateSourceReplica, vars
  <2>2. policy' \in BOOLEAN /\ replica' \in {None, "ready", "unready", "deleted"}
    BY <1>3
    DEF CreateTemplateSourceReplica, UpdateTemplateSourceReplicaValidation,
        DeleteTemplateSourceReplica, vars,
                PlanInv, TypeOK
  <2>3. TypeOK'
    BY <2>1, <2>2 DEF PlanInv, TypeOK
  <2> QED BY <2>1, <2>3, SourceKeepsPlan
<1> QED BY <1>1, <1>2, <1>3 DEF Next

\* The inductive invariant holds for every set of hosts, jobs and VMs.
THEOREM PlanInvariant == Spec => []PlanInv
BY InitPlan, NextKeepsPlan, PTL DEF Spec

\* The state is well typed.
THEOREM PlanTypes == Spec => []TypeOK
<1>1. PlanInv => TypeOK
  BY DEF PlanInv
<1> QED BY PlanInvariant, <1>1, PTL

\* What runs on a host and what is reserved on it leave the reserve free,
\* whatever the plans, the order of their admissions and the age of their samples.
THEOREM PlanReserve == Spec => []ReserveKept
<1>1. PlanInv => ReserveKept
  BY DEF PlanInv
<1> QED BY PlanInvariant, <1>1, PTL

\* No VM that Crucible placed or adopted runs elsewhere than its row says.
THEOREM PlanStays == Spec => []PlacedVMStays
<1>1. PlanInv => PlacedVMStays
  BY OnePlaced DEF PlacedVMStays
<1> QED BY PlanInvariant, <1>1, PTL

\* Only storing a plan gives a VM its source, and the sources are validated in
\* that transaction.
LEMMA SourcesOnlyStored ==
  ASSUME PlanInv, [Next]_vars PROVE LegacyRefused
<1> SUFFICES ASSUME policy, NEW v \in VMs, row[v].source = None PROVE row'[v].source # "legacy"
  BY DEF LegacyRefused
<1>0. row \in [VMs -> Rows] /\ row[v] \in Rows /\ row[v].source # "legacy"
  BY DEF PlanInv, TypeOK, None
<1>1. ASSUME NEW j \in Jobs, PrepareVMPlacementPlan(j) PROVE row'[v].source # "legacy"
  <2>1. CASE UNCHANGED row
    BY <1>0, <2>1
  <2>2. CASE v \notin Plan[j]
    <3>1. row'[v] = row[v]
      BY <1>1, <2>2 DEF PrepareVMPlacementPlan
    <3> QED BY <1>0, <3>1
  <2>3. CASE row' # row /\ v \in Plan[j]
    <3>1. row'[v].source = cand[v].source /\ ValidateVMPlacementReferences(v)
      BY <1>1, <2>3 DEF PrepareVMPlacementPlan
    <3> QED BY <3>1 DEF ValidateVMPlacementReferences, TemplateSourceReplicaModeEnabled
  <2> QED BY <2>1, <2>2, <2>3
<1>2. ASSUME NEW S, Release(S) PROVE row'[v].source # "legacy"
  <2>1. row'[v] = IF v \in S THEN [row[v] EXCEPT !.released = TRUE] ELSE row[v]
    BY <1>2 DEF Release
  <2>2. row'[v].source = row[v].source
    BY <1>0, <2>1 DEF Rows
  <2> QED BY <1>0, <2>2
<1>3. ASSUME NEW j \in Jobs, NEW u \in VMs, EnforceLegacyVMPlacement(j, u) PROVE row'[v].source # "legacy"
  <2>1. CASE UNCHANGED row
    BY <1>0, <2>1
  <2>2. CASE row' = [row EXCEPT ![u].adopting = FALSE]
    <3>1. row'[v] = row[v] \/ row'[v] = [row[v] EXCEPT !.adopting = FALSE]
      BY <1>0, <2>2
    <3>2. row'[v].source = row[v].source
      BY <1>0, <3>1 DEF Rows
    <3> QED BY <1>0, <3>2
  <2> QED BY <1>3, <2>1, <2>2
  DEF EnforceLegacyVMPlacement, CompleteLegacyVMPlacementAdoption, Drifted
<1>4. ASSUME UNCHANGED row PROVE row'[v].source # "legacy"
  BY <1>0, <1>4
<1>5. ASSUME NEW j \in Jobs, Work(j) PROVE row'[v].source # "legacy"
  <2>1. ASSUME LoadVMPlacementPlan(j) \/ PlanningFails(j) \/ Crash(j) \/ ManualCleanup(j) PROVE UNCHANGED row
    BY <2>1 DEF LoadVMPlacementPlan, PlanningFails, Crash, ManualCleanup, Drifted
  <2>2. ASSUME ReleaseVMPlacementCapacity(j) \/ Compensate(j)
        PROVE  UNCHANGED row \/ Release({w \in Plan[j] : ~row[w].released})
    BY <2>2 DEF ReleaseVMPlacementCapacity, Compensate
  <2>3. ASSUME NEW u \in VMs,
               \/ BeginHostCapacityObservation(j, u) \/ PrepareCandidate(j, u) \/ CloneVM(j, u)
               \/ ConfigureClonedVM(j, u) \/ PowerOnVM(j, u)
        PROVE  UNCHANGED row
    BY <2>3
    DEF BeginHostCapacityObservation, PrepareCandidate, CloneVM, ConfigureClonedVM, PowerOnVM,
        Drifted
  <2> QED BY <1>1, <1>2, <1>3, <1>4, <1>5, <2>1, <2>2, <2>3 DEF Work
<1>6. ASSUME NEW u \in VMs, DestroyVM(u) \/ DRSMoves(u) PROVE UNCHANGED row
  BY <1>6 DEF DestroyVM, DRSMoves
<1>7. ASSUME \/ CreateTemplateSourceReplica \/ UpdateTemplateSourceReplicaValidation
             \/ DeleteTemplateSourceReplica \/ UNCHANGED vars
      PROVE  UNCHANGED row
  BY <1>7
  DEF CreateTemplateSourceReplica, UpdateTemplateSourceReplicaValidation,
      DeleteTemplateSourceReplica, vars
<1> QED BY <1>4, <1>5, <1>6, <1>7 DEF Next

\* Once a template has had a replica, no plan with its legacy source is stored.
THEOREM PlanNoLegacy == Spec => NoLegacyFallback
<1>1. PlanInv /\ [Next]_vars => [LegacyRefused]_vars
  BY SourcesOnlyStored
<1> QED BY PlanInvariant, <1>1, PTL DEF Spec, NoLegacyFallback

-----------------------------------------------------------------------------
(* The snapshots of a VM. *)

\* A request for a snapshot adds a job and nothing else.
LEMMA RequestSnapshotKeeps == ASSUME SnapInv, RequestSnapshot PROVE SnapInv'
<1> SnapTypeOK /\ NewestKept /\ NewestIsLast /\ DeletesAsked /\ ListsSpareNewest /\ TakenIsSafe BY DEF SnapInv
<1>1. SnapTypeOK'
  <2>1. PICK j \in SnapJobs :
            snapJobs' = [snapJobs EXCEPT ![j] = [NoSnapJob EXCEPT !.status = "pending", !.type = "snapshot", !.snap = 0]]
    BY DEF RequestSnapshot, CreateSnapJob
  <2>2. 0 \in Nat
    BY DEF SnapTypeOK, SnapRowSet, Recorded
  <2>3. [NoSnapJob EXCEPT !.status = "pending", !.type = "snapshot", !.snap = 0] \in SnapJobRows
    BY <2>2 DEF NoSnapJob, SnapJobRows
  <2>4. snapJobs' \in [SnapJobs -> SnapJobRows]
    BY <2>1, <2>3 DEF SnapTypeOK
  <2> QED BY <2>2, <2>4 DEF RequestSnapshot, SnapTypeOK, SnapFine, stored
<1>2. NewestKept'
  BY DEF RequestSnapshot, CreateSnapJob, SnapFine, stored, NewestKept
<1>3. NewestIsLast'
  BY DEF RequestSnapshot, CreateSnapJob, SnapFine, stored, NewestIsLast
<1>4. DeletesAsked'
  BY DEF RequestSnapshot, CreateSnapJob, DeletesAsked
<1>5. ListsSpareNewest'
  BY DEF RequestSnapshot, CreateSnapJob, SnapFine, stored, ListsSpareNewest
<1>6. TakenIsSafe'
  BY DEF RequestSnapshot, CreateSnapJob, SnapFine, stored, TakenIsSafe, Recorded
<1> QED BY <1>1, <1>2, <1>3, <1>4, <1>5, <1>6 DEF SnapInv

\* Starting or stopping the VM leaves its snapshots alone.
LEMMA SwitchPowerKeeps == ASSUME SnapInv, SwitchPower PROVE SnapInv'
<1> SnapTypeOK /\ NewestKept /\ NewestIsLast /\ DeletesAsked /\ ListsSpareNewest /\ TakenIsSafe BY DEF SnapInv
<1>1. SnapTypeOK'
  BY DEF SwitchPower, SnapFine, stored, SnapTypeOK
<1>2. NewestKept'
  BY DEF SwitchPower, SnapFine, stored, NewestKept
<1>3. NewestIsLast'
  BY DEF SwitchPower, SnapFine, stored, NewestIsLast
<1>4. DeletesAsked'
  BY DEF SwitchPower, DeletesAsked
<1>5. ListsSpareNewest'
  BY DEF SwitchPower, SnapFine, stored, ListsSpareNewest
<1>6. TakenIsSafe'
  BY DEF SwitchPower, SnapFine, stored, TakenIsSafe, Recorded
<1> QED BY <1>1, <1>2, <1>3, <1>4, <1>5, <1>6 DEF SnapInv

\* A request to delete a recorded user snapshot gives that one up, and no other.
LEMMA RequestDeleteKeeps == ASSUME SnapInv, NEW s \in Recorded, RequestDelete(s) PROVE SnapInv'
<1> SnapTypeOK /\ NewestKept /\ NewestIsLast /\ DeletesAsked /\ ListsSpareNewest /\ TakenIsSafe BY DEF SnapInv
<1>1. SnapTypeOK'
  <2>1. PICK j \in SnapJobs :
            snapJobs' = [snapJobs EXCEPT ![j] = [NoSnapJob EXCEPT !.status = "pending", !.type = "delete", !.snap = s]]
    BY DEF RequestDelete, CreateSnapJob
  <2>2. s \in Nat
    BY DEF SnapTypeOK, SnapRowSet, Recorded
  <2>3. [NoSnapJob EXCEPT !.status = "pending", !.type = "delete", !.snap = s] \in SnapJobRows
    BY <2>2 DEF NoSnapJob, SnapJobRows
  <2>4. snapJobs' \in [SnapJobs -> SnapJobRows]
    BY <2>1, <2>3 DEF SnapTypeOK
  <2> QED BY <2>2, <2>4 DEF RequestDelete, SnapTypeOK, SnapFine, stored
<1>2. NewestKept'
  BY DEF RequestDelete, CreateSnapJob, SnapFine, stored, NewestKept
<1>3. NewestIsLast'
  <2>1. s # 0 /\ s <= taken
    <3>1. PICK r \in snapRows : s = r.snap
      BY DEF Recorded
    <3> QED BY <3>1 DEF RequestDelete, NewestIsLast
  <2> QED BY <2>1 DEF RequestDelete, NewestIsLast, SnapFine, stored
<1>4. DeletesAsked'
  BY DEF RequestDelete, CreateSnapJob, DeletesAsked
<1>5. ListsSpareNewest'
  BY DEF RequestDelete, CreateSnapJob, SnapFine, stored, ListsSpareNewest
<1>6. TakenIsSafe'
  BY DEF RequestDelete, CreateSnapJob, SnapFine, stored, TakenIsSafe, Recorded
<1> QED BY <1>1, <1>2, <1>3, <1>4, <1>5, <1>6 DEF SnapInv

\* A request to revert adds a job and nothing else.
LEMMA RequestRevertKeeps == ASSUME SnapInv, NEW s \in Recorded, RequestRevert(s) PROVE SnapInv'
<1> SnapTypeOK /\ NewestKept /\ NewestIsLast /\ DeletesAsked /\ ListsSpareNewest /\ TakenIsSafe BY DEF SnapInv
<1>1. SnapTypeOK'
  <2>1. PICK j \in SnapJobs :
            snapJobs' = [snapJobs EXCEPT ![j] = [NoSnapJob EXCEPT !.status = "pending", !.type = "revert", !.snap = s]]
    BY DEF RequestRevert, CreateSnapJob
  <2>2. s \in Nat
    BY DEF SnapTypeOK, SnapRowSet, Recorded
  <2>3. [NoSnapJob EXCEPT !.status = "pending", !.type = "revert", !.snap = s] \in SnapJobRows
    BY <2>2 DEF NoSnapJob, SnapJobRows
  <2>4. snapJobs' \in [SnapJobs -> SnapJobRows]
    BY <2>1, <2>3 DEF SnapTypeOK
  <2> QED BY <2>2, <2>4 DEF RequestRevert, SnapTypeOK, SnapFine, stored
<1>2. NewestKept'
  BY DEF RequestRevert, CreateSnapJob, SnapFine, stored, NewestKept
<1>3. NewestIsLast'
  BY DEF RequestRevert, CreateSnapJob, SnapFine, stored, NewestIsLast
<1>4. DeletesAsked'
  BY DEF RequestRevert, CreateSnapJob, DeletesAsked
<1>5. ListsSpareNewest'
  BY DEF RequestRevert, CreateSnapJob, SnapFine, stored, ListsSpareNewest
<1>6. TakenIsSafe'
  BY DEF RequestRevert, CreateSnapJob, SnapFine, stored, TakenIsSafe, Recorded
<1> QED BY <1>1, <1>2, <1>3, <1>4, <1>5, <1>6 DEF SnapInv

\* A claimed delete carries a snapshot its owner gave up.
LEMMA ClaimSnapJobKeeps == ASSUME SnapInv, NEW w \in SnapWorkers, NEW j \in SnapJobs, ClaimSnapJob(w, j) PROVE SnapInv'
<1> SnapTypeOK /\ NewestKept /\ NewestIsLast /\ DeletesAsked /\ ListsSpareNewest /\ TakenIsSafe BY DEF SnapInv
<1>1. SnapTypeOK'
  <2>1. snapJobs[j] \in SnapJobRows
    BY DEF SnapTypeOK
  <2>2. [snapJobs[j] EXCEPT !.status = "active", !.owner = w] \in SnapJobRows
    BY <2>1 DEF SnapJobRows
  <2>3. snapJobs' = [snapJobs EXCEPT ![j] = [snapJobs[j] EXCEPT !.status = "active", !.owner = w]]
    BY DEF ClaimSnapJob, SnapTypeOK
  <2>4. snapJobs' \in [SnapJobs -> SnapJobRows]
    BY <2>2, <2>3 DEF SnapTypeOK
  <2>5. [NoRun EXCEPT !.at = "list", !.job = j, !.type = snapJobs[j].type, !.snap = snapJobs[j].snap] \in SnapRunRows
    BY <2>1 DEF NoRun, SnapRunRows, SnapJobRows
  <2>6. snapRuns' \in [Removers -> SnapRunRows]
    BY <2>5 DEF ClaimSnapJob, SnapTypeOK
  <2> QED BY <2>4, <2>6 DEF ClaimSnapJob, SnapTypeOK, SnapFine, stored
<1>2. NewestKept'
  BY DEF ClaimSnapJob, SnapFine, stored, NewestKept
<1>3. NewestIsLast'
  BY DEF ClaimSnapJob, SnapFine, stored, NewestIsLast
<1>4. DeletesAsked'
  BY DEF ClaimSnapJob, DeletesAsked, SnapTypeOK
<1>5. ListsSpareNewest'
  BY DEF ClaimSnapJob, SnapFine, stored, ListsSpareNewest
<1>6. TakenIsSafe'
  BY DEF ClaimSnapJob, SnapFine, stored, TakenIsSafe, Recorded
<1> QED BY <1>1, <1>2, <1>3, <1>4, <1>5, <1>6 DEF SnapInv

\* The list of a new snapshot job names user rows only; nothing is removed before
\* the new snapshot is recorded.
LEMMA SnapshotVMKeeps == ASSUME SnapInv, NEW w \in SnapWorkers, SnapshotVM(w) PROVE SnapInv'
<1> SnapTypeOK /\ NewestKept /\ NewestIsLast /\ DeletesAsked /\ ListsSpareNewest /\ TakenIsSafe BY DEF SnapInv
<1>1. SnapTypeOK'
  <2>1. w \in Removers /\ snapRuns[w] \in SnapRunRows
    BY DEF SnapTypeOK, Removers
  <2>2. [snapRuns[w] EXCEPT !.at = "create", !.todo = UserRows] \in SnapRunRows
    <3>1. taken + 1 \in Nat /\ UserRows \subseteq SnapRowSet
      BY DEF SnapTypeOK, UserRows
    <3> QED BY <2>1, <3>1 DEF SnapRunRows
  <2>3. snapRuns' = [snapRuns EXCEPT ![w] = [snapRuns[w] EXCEPT !.at = "create", !.todo = UserRows]]
    BY <2>1 DEF SnapshotVM, SnapTypeOK
  <2>4. snapRuns' \in [Removers -> SnapRunRows]
    BY <2>1, <2>2, <2>3 DEF SnapTypeOK
  <2> QED BY <2>4 DEF SnapshotVM, SnapTypeOK, SnapFine, stored
<1>2. NewestKept'
  BY DEF SnapshotVM, UserRows, SnapFine, stored, NewestKept
<1>3. NewestIsLast'
  BY DEF SnapshotVM, UserRows, SnapFine, stored, NewestIsLast
<1>4. DeletesAsked'
  BY DEF SnapshotVM, UserRows, DeletesAsked, SnapTypeOK
<1>5. ListsSpareNewest'
  BY DEF SnapshotVM, UserRows, SnapFine, stored, ListsSpareNewest, SnapTypeOK, NewestIsLast
<1>6. TakenIsSafe'
  BY DEF SnapshotVM, UserRows, SnapFine, stored, TakenIsSafe, SnapTypeOK, Recorded
<1> QED BY <1>1, <1>2, <1>3, <1>4, <1>5, <1>6 DEF SnapInv

\* A delete lists the rows of the snapshot that was given up.
LEMMA DeleteSnapshotKeeps == ASSUME SnapInv, NEW w \in SnapWorkers, DeleteSnapshot(w) PROVE SnapInv'
<1> SnapTypeOK /\ NewestKept /\ NewestIsLast /\ DeletesAsked /\ ListsSpareNewest /\ TakenIsSafe BY DEF SnapInv
<1>1. SnapTypeOK'
  BY SweepIsNoWorker
  DEF DeleteSnapshot, Settle, EndRun, RowsOf, SnapFine, stored, NoRun, NoSnapJob, SnapRowSet,
      SnapJobRows, SnapRunRows, SnapTypeOK
<1>2. NewestKept'
  BY DEF DeleteSnapshot, Settle, EndRun, RowsOf, SnapFine, stored, NewestKept
<1>3. NewestIsLast'
  BY DEF DeleteSnapshot, Settle, EndRun, RowsOf, SnapFine, stored, NewestIsLast
<1>4. DeletesAsked'
  BY
  DEF DeleteSnapshot, Settle, EndRun, RowsOf, NoRun, NoSnapJob, SnapRunRows, DeletesAsked,
      SnapTypeOK
<1>5. ListsSpareNewest'
  BY
  DEF DeleteSnapshot, Settle, EndRun, RowsOf, SnapFine, stored, NoRun, SnapRunRows,
      ListsSpareNewest, SnapTypeOK, DeletesAsked
<1>6. TakenIsSafe'
  BY MaxSnapFaultsNat
  DEF DeleteSnapshot, Settle, EndRun, RowsOf, SnapFine, stored, NoRun, SnapRunRows, TakenIsSafe,
      SnapTypeOK, Recorded
<1> QED BY <1>1, <1>2, <1>3, <1>4, <1>5, <1>6 DEF SnapInv

\* A revert only ends its job.
LEMMA RevertVMKeeps == ASSUME SnapInv, NEW w \in SnapWorkers, RevertVM(w) PROVE SnapInv'
<1> SnapTypeOK /\ NewestKept /\ NewestIsLast /\ DeletesAsked /\ ListsSpareNewest /\ TakenIsSafe BY DEF SnapInv
<1>1. SnapTypeOK'
  BY
  DEF RevertVM, Settle, EndRun, SnapFine, stored, NoRun, NoSnapJob, SnapJobRows, SnapRunRows,
      SnapTypeOK
<1>2. NewestKept'
  BY DEF RevertVM, Settle, EndRun, SnapFine, stored, NewestKept
<1>3. NewestIsLast'
  BY DEF RevertVM, Settle, EndRun, SnapFine, stored, NewestIsLast
<1>4. DeletesAsked'
  BY DEF RevertVM, Settle, EndRun, NoRun, NoSnapJob, DeletesAsked
<1>5. ListsSpareNewest'
  BY DEF RevertVM, Settle, EndRun, SnapFine, stored, NoRun, ListsSpareNewest
<1>6. TakenIsSafe'
  BY DEF RevertVM, Settle, EndRun, SnapFine, stored, NoRun, TakenIsSafe, Recorded
<1> QED BY <1>1, <1>2, <1>3, <1>4, <1>5, <1>6 DEF SnapInv

\* A snapshot that has just been taken has a reference no list and no row knows.
LEMMA CreateVMSnapshotKeeps == ASSUME SnapInv, NEW w \in SnapWorkers, CreateVMSnapshot(w) PROVE SnapInv'
<1> SnapTypeOK /\ NewestKept /\ NewestIsLast /\ DeletesAsked /\ ListsSpareNewest /\ TakenIsSafe BY DEF SnapInv
<1>1. SnapTypeOK'
  <2>1. w \in Removers /\ snapRuns[w] \in SnapRunRows
    BY DEF SnapTypeOK, Removers
  <2>2. [snapRuns[w] EXCEPT !.at = "record", !.snap = taken + 1] \in SnapRunRows
    <3>1. taken + 1 \in Nat /\ UserRows \subseteq SnapRowSet
      BY DEF SnapTypeOK, UserRows
    <3> QED BY <2>1, <3>1 DEF SnapRunRows
  <2>3. snapRuns' = [snapRuns EXCEPT ![w] = [snapRuns[w] EXCEPT !.at = "record", !.snap = taken + 1]]
    BY <2>1 DEF CreateVMSnapshot, SnapTypeOK
  <2>4. snapRuns' \in [Removers -> SnapRunRows]
    BY <2>1, <2>2, <2>3 DEF SnapTypeOK
  <2> QED BY <2>4 DEF CreateVMSnapshot, SnapTypeOK, SnapFine, stored
<1>2. NewestKept'
  BY DEF CreateVMSnapshot, NewestKept
<1>3. NewestIsLast'
  BY DEF CreateVMSnapshot, SnapRowSet, NewestIsLast, SnapTypeOK
<1>4. DeletesAsked'
  BY DEF CreateVMSnapshot, DeletesAsked, SnapTypeOK
<1>5. ListsSpareNewest'
  BY DEF CreateVMSnapshot, SnapRowSet, SnapRunRows, ListsSpareNewest, SnapTypeOK
<1>6. TakenIsSafe'
  <2>1. w \in Removers /\ snapRuns[w] \in SnapRunRows
    BY DEF SnapTypeOK, Removers
  <2>2. snapRuns' = [snapRuns EXCEPT ![w] = [snapRuns[w] EXCEPT !.at = "record", !.snap = taken + 1]]
    BY <2>1 DEF CreateVMSnapshot, SnapTypeOK
  <2>3. snapRuns'[w].at = "record" /\ snapRuns'[w].snap = taken + 1 /\ snapRuns'[w].todo = snapRuns[w].todo
    BY <2>1, <2>2 DEF SnapTypeOK, SnapRunRows
  <2>4. \A v \in Removers : v # w => snapRuns'[v] = snapRuns[v]
    BY <2>2 DEF SnapTypeOK
  <2>5. \A v \in Removers : snapRuns'[v].todo = snapRuns[v].todo
    BY <2>3, <2>4
  <2>6. taken \in Nat /\ newest \in Nat /\ taken' = taken + 1 /\ newest' = newest /\ snapRows' = snapRows
        /\ snapsInVC' = snapsInVC \cup {taken + 1} /\ Recorded' = Recorded
    BY DEF SnapTypeOK, CreateVMSnapshot, Recorded
  <2>7. \A s \in Recorded : s \in Nat /\ s <= taken
    <3>1. \A r \in snapRows : r.snap \in Nat /\ r.snap <= taken
      BY DEF NewestIsLast, SnapTypeOK, SnapRowSet
    <3> QED BY <3>1 DEF Recorded
  <2>8. \A v \in Removers : \A r \in snapRuns[v].todo : r.snap \in Nat /\ r.snap <= taken
    BY DEF ListsSpareNewest, SnapTypeOK, SnapRunRows, SnapRowSet
  <2>9. \A v \in Removers : v # w /\ snapRuns[v].at = "record" => snapRuns[v].snap \in Nat /\ snapRuns[v].snap <= taken
    BY DEF TakenIsSafe, SnapTypeOK, SnapRunRows
  <2>10. newest <= taken
    BY DEF NewestIsLast
  <2>11. ASSUME NEW u \in Removers, snapRuns'[u].at = "record"
         PROVE  /\ snapRuns'[u].snap # 0 /\ snapRuns'[u].snap <= taken' /\ snapRuns'[u].snap \in snapsInVC'
                /\ snapRuns'[u].snap \notin Recorded' /\ snapRuns'[u].snap # newest'
                /\ \A v \in Removers :
                      /\ \A r \in snapRuns'[v].todo : r.snap # snapRuns'[u].snap
                      /\ v # u /\ snapRuns'[v].at = "record" => snapRuns'[v].snap # snapRuns'[u].snap
    <3>1. CASE u = w
      <4>1. snapRuns'[u].snap = taken + 1
        BY <2>3, <3>1
      <4>2. \A v \in Removers : \A r \in snapRuns'[v].todo : r.snap # taken + 1
        BY <2>5, <2>6, <2>8
      <4>3. \A v \in Removers : v # u /\ snapRuns'[v].at = "record" => snapRuns'[v].snap # taken + 1
        BY <2>4, <2>6, <2>9, <3>1
      <4> QED BY <2>6, <2>7, <2>10, <4>1, <4>2, <4>3
    <3>2. CASE u # w
      <4>1. snapRuns'[u] = snapRuns[u] /\ snapRuns[u].at = "record"
        BY <2>4, <2>11, <3>2
      <4>2. snapRuns[u].snap \in Nat /\ snapRuns[u].snap <= taken
        BY <2>9, <3>2, <4>1
      <4>3. \A v \in Removers : v # u /\ snapRuns'[v].at = "record" => snapRuns'[v].snap # snapRuns[u].snap
        BY <2>3, <2>4, <2>6, <4>1, <4>2 DEF TakenIsSafe
      <4>4. \A v \in Removers : \A r \in snapRuns'[v].todo : r.snap # snapRuns[u].snap
        BY <2>5, <4>1 DEF TakenIsSafe
      <4> QED BY <2>6, <4>1, <4>2, <4>3, <4>4 DEF TakenIsSafe
    <3> QED BY <3>1, <3>2
  <2> QED BY <2>11 DEF TakenIsSafe
<1> QED BY <1>1, <1>2, <1>3, <1>4, <1>5, <1>6 DEF SnapInv

\* The recorded snapshot becomes the newest; no list that is being removed names it,
\* for all were made before it had a row.
LEMMA RecordVMSnapshotKeeps == ASSUME SnapInv, NEW w \in SnapWorkers, RecordVMSnapshot(w) PROVE SnapInv'
<1> SnapTypeOK /\ NewestKept /\ NewestIsLast /\ DeletesAsked /\ ListsSpareNewest /\ TakenIsSafe BY DEF SnapInv
<1>1. SnapTypeOK'
  BY
  DEF RecordVMSnapshot, InsertRow, Row, RunTo, SnapFine, stored, Removers, SnapRowSet,
      SnapRunRows, SnapTypeOK
<1>2. NewestKept'
  BY DEF RecordVMSnapshot, InsertRow, Row, RunTo, Removers, NewestKept, TakenIsSafe
<1>3. NewestIsLast'
  BY
  DEF RecordVMSnapshot, InsertRow, Row, RunTo, Removers, SnapRowSet, NewestIsLast, SnapTypeOK,
      TakenIsSafe, Recorded
<1>4. DeletesAsked'
  BY DEF RecordVMSnapshot, InsertRow, Row, RunTo, DeletesAsked
<1>5. ListsSpareNewest'
  BY DEF RecordVMSnapshot, InsertRow, Row, RunTo, Removers, ListsSpareNewest, TakenIsSafe
<1>6. TakenIsSafe'
  BY DEF RecordVMSnapshot, InsertRow, Row, RunTo, Removers, TakenIsSafe, SnapTypeOK, Recorded
<1> QED BY <1>1, <1>2, <1>3, <1>4, <1>5, <1>6 DEF SnapInv

\* A job with nothing left to remove only ends.
LEMMA SnapshotDoneKeeps == ASSUME SnapInv, NEW w \in SnapWorkers, SnapshotDone(w) PROVE SnapInv'
<1> SnapTypeOK /\ NewestKept /\ NewestIsLast /\ DeletesAsked /\ ListsSpareNewest /\ TakenIsSafe BY DEF SnapInv
<1>1. SnapTypeOK'
  BY
  DEF SnapshotDone, Settle, EndRun, SnapFine, stored, NoRun, NoSnapJob, SnapJobRows,
      SnapRunRows, SnapTypeOK
<1>2. NewestKept'
  BY DEF SnapshotDone, Settle, EndRun, SnapFine, stored, NewestKept
<1>3. NewestIsLast'
  BY DEF SnapshotDone, Settle, EndRun, SnapFine, stored, NewestIsLast
<1>4. DeletesAsked'
  BY DEF SnapshotDone, Settle, EndRun, NoRun, NoSnapJob, DeletesAsked
<1>5. ListsSpareNewest'
  BY DEF SnapshotDone, Settle, EndRun, SnapFine, stored, NoRun, ListsSpareNewest
<1>6. TakenIsSafe'
  BY DEF SnapshotDone, Settle, EndRun, SnapFine, stored, NoRun, TakenIsSafe, Recorded
<1> QED BY <1>1, <1>2, <1>3, <1>4, <1>5, <1>6 DEF SnapInv

\* The rows the sweep lists are older than another one, so the newest is not listed.
LEMMA StartSweepKeeps == ASSUME SnapInv, StartSweep PROVE SnapInv'
<1> SnapTypeOK /\ NewestKept /\ NewestIsLast /\ DeletesAsked /\ ListsSpareNewest /\ TakenIsSafe BY DEF SnapInv
<1>1. SnapTypeOK'
  BY
  DEF StartSweep, ListExcessUserSnapshots, UserRows, SnapFine, stored, NoRun, SnapRunRows,
      SnapTypeOK
<1>2. NewestKept'
  BY DEF StartSweep, ListExcessUserSnapshots, UserRows, SnapFine, stored, NewestKept
<1>3. NewestIsLast'
  BY DEF StartSweep, ListExcessUserSnapshots, UserRows, SnapFine, stored, NewestIsLast
<1>4. DeletesAsked'
  BY DEF StartSweep, ListExcessUserSnapshots, UserRows, DeletesAsked
<1>5. ListsSpareNewest'
  <2>1. \A r \in ListExcessUserSnapshots : r.snap # 0 /\ r.snap <= taken /\ r.snap # newest
    <3>1. ASSUME NEW r \in ListExcessUserSnapshots
          PROVE  r.snap # 0 /\ r.snap <= taken /\ r.snap # newest
      <4>1. r \in snapRows /\ r.snap # 0
        BY DEF ListExcessUserSnapshots, UserRows
      <4>2. PICK q \in snapRows : r.at < q.at
        BY DEF ListExcessUserSnapshots, UserRows
      <4>3. r.at \in Nat /\ q.at \in Nat /\ inserted \in Nat
        BY <4>1, <4>2 DEF SnapTypeOK, SnapRowSet
      <4>4. r.snap <= taken /\ q.at <= inserted /\ (r.snap = newest => r.at = inserted)
        BY <4>1, <4>2 DEF NewestIsLast
      <4> QED BY <4>1, <4>2, <4>3, <4>4
    <3> QED BY <3>1
  <2>2. snapRuns'["sweep"].todo = ListExcessUserSnapshots
    BY DEF StartSweep, SnapTypeOK, Removers, NoRun
  <2>3. \A v \in Removers : v # "sweep" => snapRuns'[v] = snapRuns[v]
    BY DEF StartSweep, SnapTypeOK
  <2>4. taken' = taken /\ newest' = newest /\ unwanted' = unwanted
    BY DEF StartSweep, stored
  <2> QED BY <2>1, <2>2, <2>3, <2>4 DEF ListsSpareNewest
<1>6. TakenIsSafe'
  BY DEF StartSweep, ListExcessUserSnapshots, UserRows, SnapFine, stored, TakenIsSafe, Recorded
<1> QED BY <1>1, <1>2, <1>3, <1>4, <1>5, <1>6 DEF SnapInv

\* The end of a sweep drops an empty list.
LEMMA EndSweepKeeps == ASSUME SnapInv, EndSweep PROVE SnapInv'
<1> SnapTypeOK /\ NewestKept /\ NewestIsLast /\ DeletesAsked /\ ListsSpareNewest /\ TakenIsSafe BY DEF SnapInv
<1>1. SnapTypeOK'
  BY DEF EndSweep, EndRun, SnapFine, stored, NoRun, SnapRunRows, SnapTypeOK
<1>2. NewestKept'
  BY DEF EndSweep, EndRun, SnapFine, stored, NewestKept
<1>3. NewestIsLast'
  BY DEF EndSweep, EndRun, SnapFine, stored, NewestIsLast
<1>4. DeletesAsked'
  BY DEF EndSweep, EndRun, NoRun, DeletesAsked
<1>5. ListsSpareNewest'
  BY DEF EndSweep, EndRun, SnapFine, stored, NoRun, ListsSpareNewest
<1>6. TakenIsSafe'
  BY DEF EndSweep, EndRun, SnapFine, stored, NoRun, TakenIsSafe, Recorded
<1> QED BY <1>1, <1>2, <1>3, <1>4, <1>5, <1>6 DEF SnapInv

\* What a list has removed from vCenter is neither the initial snapshot nor the newest
\* one, unless its owner gave it up.
LEMMA RemoveVMSnapshotKeeps == ASSUME SnapInv, NEW w \in Removers, RemoveVMSnapshot(w) PROVE SnapInv'
<1> SnapTypeOK /\ NewestKept /\ NewestIsLast /\ DeletesAsked /\ ListsSpareNewest /\ TakenIsSafe BY DEF SnapInv
<1>1. SnapTypeOK'
  BY
  DEF RemoveVMSnapshot, Oldest, RunTo, GiveUp, Onward, Settle, EndRun, SnapFine, stored,
      Removers, NoRun, NoSnapJob, SnapJobRows, SnapRunRows, SnapTypeOK
<1>2. NewestKept'
  BY
  DEF RemoveVMSnapshot, Oldest, RunTo, GiveUp, Onward, Settle, EndRun, NewestKept,
      ListsSpareNewest, Recorded
<1>3. NewestIsLast'
  BY DEF RemoveVMSnapshot, Oldest, RunTo, GiveUp, Onward, Settle, EndRun, NewestIsLast
<1>4. DeletesAsked'
  BY
  DEF RemoveVMSnapshot, Oldest, RunTo, GiveUp, Onward, Settle, EndRun, NoRun, NoSnapJob,
      SnapRunRows, DeletesAsked, SnapTypeOK
<1>5. ListsSpareNewest'
  BY
  DEF RemoveVMSnapshot, Oldest, RunTo, GiveUp, Onward, Settle, EndRun, NoRun, SnapRunRows,
      ListsSpareNewest, SnapTypeOK
<1>6. TakenIsSafe'
  BY
  DEF RemoveVMSnapshot, Oldest, RunTo, GiveUp, Onward, Settle, EndRun, NoRun, SnapRunRows,
      TakenIsSafe, SnapTypeOK, Recorded
<1> QED BY <1>1, <1>2, <1>3, <1>4, <1>5, <1>6 DEF SnapInv

\* The same for the row that is deleted.
LEMMA DeleteVMSnapshotKeeps == ASSUME SnapInv, NEW w \in Removers, DeleteVMSnapshot(w) PROVE SnapInv'
<1> SnapTypeOK /\ NewestKept /\ NewestIsLast /\ DeletesAsked /\ ListsSpareNewest /\ TakenIsSafe BY DEF SnapInv
<1>1. SnapTypeOK'
  BY DEF DeleteVMSnapshot, Oldest, Onward, DeleteRow, RowsOf, SnapRunRows, SnapTypeOK
<1>2. NewestKept'
  BY DEF DeleteVMSnapshot, Oldest, Onward, DeleteRow, RowsOf, NewestKept
<1>3. NewestIsLast'
  BY DEF DeleteVMSnapshot, Oldest, Onward, DeleteRow, RowsOf, NewestIsLast
<1>4. DeletesAsked'
  BY DEF DeleteVMSnapshot, Oldest, Onward, DeleteRow, RowsOf, DeletesAsked, SnapTypeOK
<1>5. ListsSpareNewest'
  BY DEF DeleteVMSnapshot, Oldest, Onward, DeleteRow, RowsOf, ListsSpareNewest, SnapTypeOK
<1>6. TakenIsSafe'
  BY DEF DeleteVMSnapshot, Oldest, Onward, DeleteRow, RowsOf, TakenIsSafe, SnapTypeOK, Recorded
<1> QED BY <1>1, <1>2, <1>3, <1>4, <1>5, <1>6 DEF SnapInv

\* A failed creation may leave a snapshot that nothing refers to.
LEMMA TakeFailsKeeps == ASSUME SnapInv, NEW w \in SnapWorkers, TakeFails(w) PROVE SnapInv'
<1> SnapTypeOK /\ NewestKept /\ NewestIsLast /\ DeletesAsked /\ ListsSpareNewest /\ TakenIsSafe BY DEF SnapInv
<1>1. SnapTypeOK'
  <2>1. [NoSnapJob EXCEPT !.status = "ended"] \in SnapJobRows /\ NoRun \in SnapRunRows
    BY DEF NoSnapJob, SnapJobRows, NoRun, SnapRunRows
  <2>2. snapJobs' \in [SnapJobs -> SnapJobRows] /\ snapRuns' \in [Removers -> SnapRunRows]
    BY <2>1 DEF TakeFails, Settle, EndRun, SnapTypeOK
  <2>3. snapRows' \subseteq SnapRowSet /\ inserted' \in Nat /\ newest' \in Nat /\ taken' \in Nat /\ snapsInVC' \subseteq Nat
    <3>1. taken + 1 \in Nat
      BY DEF SnapTypeOK
    <3> QED BY <3>1 DEF TakeFails, SnapTypeOK
  <2> QED BY <2>2, <2>3, MaxSnapFaultsNat DEF TakeFails, SnapFault, SnapTypeOK
<1>2. NewestKept'
  BY DEF TakeFails, Settle, EndRun, NewestKept
<1>3. NewestIsLast'
  BY DEF TakeFails, Settle, EndRun, SnapRowSet, NewestIsLast, SnapTypeOK
<1>4. DeletesAsked'
  BY DEF TakeFails, Settle, EndRun, NoRun, NoSnapJob, DeletesAsked
<1>5. ListsSpareNewest'
  BY DEF TakeFails, Settle, EndRun, NoRun, SnapRowSet, SnapRunRows, ListsSpareNewest, SnapTypeOK
<1>6. TakenIsSafe'
  BY DEF TakeFails, Settle, EndRun, NoRun, TakenIsSafe, SnapTypeOK, Recorded
<1> QED BY <1>1, <1>2, <1>3, <1>4, <1>5, <1>6 DEF SnapInv

\* An insertion that is reported as failed may have made its snapshot the newest.
LEMMA RecordFailsKeeps == ASSUME SnapInv, NEW w \in SnapWorkers, RecordFails(w) PROVE SnapInv'
<1> SnapTypeOK /\ NewestKept /\ NewestIsLast /\ DeletesAsked /\ ListsSpareNewest /\ TakenIsSafe BY DEF SnapInv
<1>1. SnapTypeOK'
  <2>1. [NoSnapJob EXCEPT !.status = "ended"] \in SnapJobRows /\ NoRun \in SnapRunRows
    BY DEF NoSnapJob, SnapJobRows, NoRun, SnapRunRows
  <2>2. snapJobs' \in [SnapJobs -> SnapJobRows] /\ snapRuns' \in [Removers -> SnapRunRows]
    BY <2>1 DEF RecordFails, Settle, EndRun, SnapTypeOK
  <2>3. snapRows' \subseteq SnapRowSet /\ inserted' \in Nat /\ newest' \in Nat /\ taken' \in Nat /\ snapsInVC' \subseteq Nat
    BY DEF RecordFails, InsertRow, Row, SnapTypeOK, SnapRowSet, SnapRunRows, Removers
  <2> QED BY <2>2, <2>3, MaxSnapFaultsNat DEF RecordFails, SnapFault, SnapTypeOK
<1>2. NewestKept'
  <2>1. w \in Removers /\ snapRuns[w].at = "record" /\ snapsInVC' = snapsInVC /\ unwanted' = unwanted
    BY DEF RecordFails, Removers
  <2>2. CASE UNCHANGED <<snapRows, inserted, newest>>
    BY <2>1, <2>2 DEF NewestKept, Recorded
  <2>3. CASE InsertRow(snapRuns[w].snap)
    <3>1. newest' = snapRuns[w].snap /\ snapRows' = snapRows \cup {Row(snapRuns[w].snap, inserted + 1)}
      BY <2>3 DEF InsertRow
    <3>2. Recorded' = Recorded \cup {snapRuns[w].snap}
      <4>1. PICK x : x = Row(snapRuns[w].snap, inserted + 1)
        OBVIOUS
      <4>2. x.snap = snapRuns[w].snap /\ snapRows' = snapRows \cup {x}
        BY <3>1, <4>1 DEF Row
      <4> QED BY <4>2 DEF Recorded
    <3>3. snapRuns[w].snap \in snapsInVC
      BY <2>1 DEF TakenIsSafe
    <3> QED BY <2>1, <3>1, <3>2, <3>3 DEF NewestKept
  <2> QED BY <2>2, <2>3 DEF RecordFails
<1>3. NewestIsLast'
  BY
  DEF RecordFails, InsertRow, Row, Settle, EndRun, Removers, SnapRowSet, NewestIsLast,
      SnapTypeOK, TakenIsSafe, Recorded
<1>4. DeletesAsked'
  BY DEF RecordFails, InsertRow, Row, Settle, EndRun, NoRun, NoSnapJob, DeletesAsked
<1>5. ListsSpareNewest'
  BY DEF RecordFails, InsertRow, Row, Settle, EndRun, Removers, NoRun, ListsSpareNewest, TakenIsSafe
<1>6. TakenIsSafe'
  BY
  DEF RecordFails, InsertRow, Row, Settle, EndRun, Removers, NoRun, TakenIsSafe, SnapTypeOK,
      Recorded
<1> QED BY <1>1, <1>2, <1>3, <1>4, <1>5, <1>6 DEF SnapInv

\* A failed removal, with its effect or without, touches only what its list names.
LEMMA RemoveFailsKeeps == ASSUME SnapInv, NEW w \in Removers, RemoveFails(w) PROVE SnapInv'
<1> SnapTypeOK /\ NewestKept /\ NewestIsLast /\ DeletesAsked /\ ListsSpareNewest /\ TakenIsSafe BY DEF SnapInv
<1>1. SnapTypeOK'
  BY MaxSnapFaultsNat
  DEF RemoveFails, Oldest, GiveUp, Onward, Settle, EndRun, SnapFault, Removers, NoRun,
      NoSnapJob, SnapJobRows, SnapRunRows, SnapTypeOK
<1>2. NewestKept'
  BY DEF RemoveFails, Oldest, GiveUp, Onward, Settle, EndRun, NewestKept, ListsSpareNewest, Recorded
<1>3. NewestIsLast'
  BY DEF RemoveFails, Oldest, GiveUp, Onward, Settle, EndRun, NewestIsLast
<1>4. DeletesAsked'
  BY
  DEF RemoveFails, Oldest, GiveUp, Onward, Settle, EndRun, NoRun, NoSnapJob, SnapRowSet,
      SnapRunRows, DeletesAsked, SnapTypeOK
<1>5. ListsSpareNewest'
  BY
  DEF RemoveFails, Oldest, GiveUp, Onward, Settle, EndRun, NoRun, SnapRunRows, ListsSpareNewest,
      SnapTypeOK
<1>6. TakenIsSafe'
  BY
  DEF RemoveFails, Oldest, GiveUp, Onward, Settle, EndRun, NoRun, SnapRunRows, TakenIsSafe,
      SnapTypeOK, Recorded
<1> QED BY <1>1, <1>2, <1>3, <1>4, <1>5, <1>6 DEF SnapInv

\* A failed deletion of a row, with its effect or without, does the same.
LEMMA DeleteFailsKeeps == ASSUME SnapInv, NEW w \in Removers, DeleteFails(w) PROVE SnapInv'
<1> SnapTypeOK /\ NewestKept /\ NewestIsLast /\ DeletesAsked /\ ListsSpareNewest /\ TakenIsSafe BY DEF SnapInv
<1>1. SnapTypeOK'
  BY MaxSnapFaultsNat
  DEF DeleteFails, Oldest, GiveUp, Onward, Settle, EndRun, DeleteRow, RowsOf, SnapFault,
      Removers, NoRun, NoSnapJob, SnapJobRows, SnapRunRows, SnapTypeOK
<1>2. NewestKept'
  BY DEF DeleteFails, Oldest, GiveUp, Onward, Settle, EndRun, DeleteRow, RowsOf, NewestKept
<1>3. NewestIsLast'
  BY DEF DeleteFails, Oldest, GiveUp, Onward, Settle, EndRun, DeleteRow, RowsOf, NewestIsLast
<1>4. DeletesAsked'
  BY
  DEF DeleteFails, Oldest, GiveUp, Onward, Settle, EndRun, DeleteRow, RowsOf, NoRun, NoSnapJob,
      SnapRunRows, DeletesAsked, SnapTypeOK
<1>5. ListsSpareNewest'
  BY
  DEF DeleteFails, Oldest, GiveUp, Onward, Settle, EndRun, DeleteRow, RowsOf, NoRun,
      SnapRunRows, ListsSpareNewest, SnapTypeOK
<1>6. TakenIsSafe'
  <2>1. PICK r \in Oldest(w) : GiveUp(w, r) /\ (UNCHANGED snapRows \/ DeleteRow(r.snap))
    BY DEF DeleteFails
  <2>2. snapsInVC' = snapsInVC /\ taken' = taken /\ newest' = newest /\ Recorded' \subseteq Recorded
    BY <2>1 DEF DeleteFails, Recorded, DeleteRow, RowsOf
  <2>3. \A v \in Removers :
          /\ snapRuns'[v].at = "record" => snapRuns'[v] = snapRuns[v]
          /\ snapRuns'[v].todo \subseteq snapRuns[v].todo
    BY <2>1 DEF GiveUp, Onward, Settle, EndRun, NoRun, SnapTypeOK, SnapRunRows
  <2> QED BY <2>2, <2>3 DEF TakenIsSafe
<1> QED BY <1>1, <1>2, <1>3, <1>4, <1>5, <1>6 DEF SnapInv

\* A crash drops a list and hands the job back, to be run from its start.
LEMMA SnapCrashKeeps == ASSUME SnapInv, NEW w \in Removers, SnapCrash(w) PROVE SnapInv'
<1> SnapTypeOK /\ NewestKept /\ NewestIsLast /\ DeletesAsked /\ ListsSpareNewest /\ TakenIsSafe BY DEF SnapInv
<1>1. SnapTypeOK'
  <2>1. \A i \in SnapJobs : [snapJobs[i] EXCEPT !.status = "pending", !.owner = "none"] \in SnapJobRows
    BY DEF SnapTypeOK, SnapJobRows

  <2>2. snapJobs' \in [SnapJobs -> SnapJobRows]
    BY <2>1 DEF SnapCrash, SnapTypeOK
  <2>3. NoRun \in SnapRunRows
    BY DEF NoRun, SnapRunRows
  <2>4. snapRuns' \in [Removers -> SnapRunRows]
    BY <2>3 DEF SnapCrash, EndRun, SnapTypeOK
  <2>5. snapFaults' \in 0 .. MaxSnapFaults
    <3>1. snapFaults \in 0 .. MaxSnapFaults /\ snapFaults < MaxSnapFaults /\ snapFaults' = snapFaults + 1
      BY DEF SnapCrash, SnapFault, SnapTypeOK
    <3> QED BY <3>1, MaxSnapFaultsNat
  <2> QED BY <2>2, <2>4, <2>5 DEF SnapCrash, stored, SnapTypeOK
<1>2. NewestKept'
  BY DEF SnapCrash, EndRun, SnapFine, stored, NewestKept
<1>3. NewestIsLast'
  BY DEF SnapCrash, EndRun, SnapFine, stored, NewestIsLast
<1>4. DeletesAsked'
  BY DEF SnapCrash, EndRun, NoRun, SnapJobRows, DeletesAsked, SnapTypeOK
<1>5. ListsSpareNewest'
  BY DEF SnapCrash, EndRun, SnapFine, stored, NoRun, ListsSpareNewest, SnapTypeOK
<1>6. TakenIsSafe'
  BY DEF SnapCrash, EndRun, SnapFine, stored, NoRun, TakenIsSafe, SnapTypeOK, Recorded
<1> QED BY <1>1, <1>2, <1>3, <1>4, <1>5, <1>6 DEF SnapInv

\* A lost lease hands the job back while its execution goes on.
LEMMA LoseLeaseKeeps == ASSUME SnapInv, NEW j \in SnapJobs, LoseLease(j) PROVE SnapInv'
<1> SnapTypeOK /\ NewestKept /\ NewestIsLast /\ DeletesAsked /\ ListsSpareNewest /\ TakenIsSafe BY DEF SnapInv
<1>1. SnapTypeOK'
  <2>1. \A i \in SnapJobs : [snapJobs[i] EXCEPT !.status = "pending", !.owner = "none"] \in SnapJobRows
    BY DEF SnapTypeOK, SnapJobRows

  <2>2. snapJobs' = [snapJobs EXCEPT ![j] = [snapJobs[j] EXCEPT !.status = "pending", !.owner = "none"]]
    BY DEF LoseLease, SnapTypeOK
  <2>3. snapJobs' \in [SnapJobs -> SnapJobRows]
    BY <2>1, <2>2 DEF SnapTypeOK
  <2> QED BY <2>3, MaxSnapFaultsNat DEF LoseLease, SnapFault, stored, SnapTypeOK
<1>2. NewestKept'
  BY DEF LoseLease, SnapFine, stored, NewestKept
<1>3. NewestIsLast'
  BY DEF LoseLease, SnapFine, stored, NewestIsLast
<1>4. DeletesAsked'
  BY DEF LoseLease, DeletesAsked, SnapTypeOK
<1>5. ListsSpareNewest'
  BY DEF LoseLease, SnapFine, stored, ListsSpareNewest
<1>6. TakenIsSafe'
  BY DEF LoseLease, SnapFine, stored, TakenIsSafe, Recorded
<1> QED BY <1>1, <1>2, <1>3, <1>4, <1>5, <1>6 DEF SnapInv


\* At first the VM has its initial snapshot, recorded and in vCenter.
LEMMA SnapInitKeeps == SnapInit => SnapInv
<1> SUFFICES ASSUME SnapInit PROVE SnapInv
  OBVIOUS
<1>1. NoSnapJob \in SnapJobRows /\ NoRun \in SnapRunRows /\ Row(0, 0) \in SnapRowSet
  BY DEF NoSnapJob, SnapJobRows, NoRun, SnapRunRows, Row, SnapRowSet
<1>2. SnapTypeOK
  BY <1>1, MaxSnapFaultsNat DEF SnapInit, SnapTypeOK
<1>3. snapRows = {Row(0, 0)} /\ Row(0, 0).snap = 0 /\ Row(0, 0).at = 0 /\ Recorded = {0}
  BY DEF SnapInit, Row, Recorded
<1>4. \A w \in Removers : snapRuns[w].at = "idle" /\ snapRuns[w].todo = {}
  BY DEF SnapInit, NoRun
<1>5. \A j \in SnapJobs : snapJobs[j].type = "none"
  BY DEF SnapInit, NoSnapJob
<1> QED
  BY <1>2, <1>3, <1>4, <1>5
  DEF SnapInit, SnapInv, NewestKept, NewestIsLast, DeletesAsked, ListsSpareNewest, TakenIsSafe

\* Every step of the snapshots keeps the invariant.
LEMMA SnapNextKeeps == SnapInv /\ [SnapNext]_snapVars => SnapInv'
<1> SUFFICES ASSUME SnapInv, [SnapNext]_snapVars PROVE SnapInv'
  OBVIOUS
<1>1. SnapWorkers \subseteq Removers /\ "sweep" \in Removers
  BY DEF Removers
<1>2. CASE RequestSnapshot
  BY <1>2, RequestSnapshotKeeps
<1>3. CASE SwitchPower
  BY <1>3, SwitchPowerKeeps
<1>4. CASE \E s \in Recorded : RequestDelete(s) \/ RequestRevert(s)
  BY <1>4, RequestDeleteKeeps, RequestRevertKeeps
<1>5. CASE \E w \in SnapWorkers : ClaimAnySnapJob(w)
  BY <1>5, ClaimSnapJobKeeps DEF ClaimAnySnapJob
<1>6. CASE \E w \in SnapWorkers : SnapRun(w)
  BY <1>1, <1>6, SnapshotVMKeeps, DeleteSnapshotKeeps, RevertVMKeeps, CreateVMSnapshotKeeps,
     RecordVMSnapshotKeeps, SnapshotDoneKeeps, RemoveVMSnapshotKeeps,
     DeleteVMSnapshotKeeps DEF SnapRun
<1>7. CASE \E w \in SnapWorkers : TakeFails(w) \/ RecordFails(w)
  BY <1>7, TakeFailsKeeps, RecordFailsKeeps
<1>8. CASE Sweep
  BY <1>1, <1>8, StartSweepKeeps, EndSweepKeeps, RemoveVMSnapshotKeeps,
      DeleteVMSnapshotKeeps DEF Sweep
<1>9. CASE \E w \in Removers : RemoveFails(w) \/ DeleteFails(w) \/ SnapCrash(w)
  BY <1>9, RemoveFailsKeeps, DeleteFailsKeeps, SnapCrashKeeps
<1>10. CASE \E j \in SnapJobs : LoseLease(j)
  BY <1>10, LoseLeaseKeeps
<1>11. CASE UNCHANGED snapVars
  BY <1>11
  DEF snapVars, SnapInv, SnapTypeOK, NewestKept, NewestIsLast, DeletesAsked, ListsSpareNewest,
      TakenIsSafe, Recorded
<1> QED
  BY <1>2, <1>3, <1>4, <1>5, <1>6, <1>7, <1>8, <1>9, <1>10, <1>11 DEF SnapNext

\* The invariant holds in every reachable state.
THEOREM SnapshotInvariant == SnapSpec => []SnapInv
<1>1. SnapInit => SnapInv
  BY SnapInitKeeps
<1>2. SnapInv /\ [SnapNext]_snapVars => SnapInv'
  BY SnapNextKeeps
<1> QED
  BY <1>1, <1>2, PTL DEF SnapSpec

\* The rows, the jobs and the executions keep their types.
THEOREM SnapshotTypes == SnapSpec => []SnapTypeOK
<1>1. SnapInv => SnapTypeOK
  BY DEF SnapInv
<1> QED
  BY <1>1, SnapshotInvariant, PTL

\* The snapshot its owner took last and the initial one stay recorded and in
\* vCenter until the owner asks for the deletion: for any number of jobs,
\* workers and faults, jobs run twice and sweeps with an old list included.
THEOREM SnapshotNewestKept == SnapSpec => []NewestKept
<1>1. SnapInv => NewestKept
  BY DEF SnapInv
<1> QED
  BY <1>1, SnapshotInvariant, PTL
=============================================================================
