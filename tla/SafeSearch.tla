----------------------------- MODULE SafeSearch -----------------------------
(***************************************************************************)
(* Installing the student-only SafeSearch view of Unbound on the firewall:  *)
(* a transaction over two files and the running server, driven over SSH     *)
(* under a remote lock, with a backup file as its log.  A command that      *)
(* fails may have taken effect, the installer may die between any two       *)
(* commands, and the firewall may reboot under it.                          *)
(*                                                                         *)
(* Left out: fragments that are not ours and conflicting views (the         *)
(* installer refuses before it has changed anything), and a command that    *)
(* takes effect after the installer gave it up.                             *)
(***************************************************************************)
EXTENDS Naturals

CONSTANTS
    Fragments,  \* contents of the fragment, 0 stands for no file
    MaxSSFaults \* bound: failed commands, crashes and reboots

ASSUME FragmentsPositive == Fragments \subseteq Nat \ {0}
ASSUME MaxSSFaultsNat == MaxSSFaults \in Nat

VARIABLES
    persistent, \* the fragment of the persistent configuration
    staged,     \* the copy Unbound reads
    unbound,    \* the fragment the running Unbound has loaded
    backup,     \* the log: phase, previous and desired contents
    installer,  \* where configure is, what it found and what it wants
    ssFaults

files == <<persistent, staged, unbound>>
ssVars == <<files, backup, installer, ssFaults>>

Contents == Fragments \cup {0}
NoBackup == [phase |-> "none", previous |-> 0, desired |-> 0]
AtDoor == [at |-> "idle", previous |-> 0, desired |-> 0, recovering |-> FALSE]

Installing == {"write", "stage", "activate", "commit"}
Restoring == {"restorePersistent", "restoreStaged", "restoreActivate", "restoreDone"}

SSTypeOK ==
    /\ persistent \in Contents /\ staged \in Contents /\ unbound \in Contents
    /\ backup \in [phase : {"none", "prepared", "committed"}, previous : Contents, desired : Contents]
    /\ installer \in [at : {"idle", "snapshot", "closeCommitted", "close"} \cup Installing \cup Restoring,
                      previous : Contents, desired : Contents, recovering : BOOLEAN]
    /\ ssFaults \in 0 .. MaxSSFaults

SSInit ==
    /\ persistent \in Contents /\ staged = persistent /\ unbound = persistent
    /\ backup = NoBackup /\ installer = AtDoor /\ ssFaults = 0

-----------------------------------------------------------------------------
SSFault == ssFaults < MaxSSFaults /\ ssFaults' = ssFaults + 1
SSFine == UNCHANGED ssFaults
InstallerTo(s) == installer' = [installer EXCEPT !.at = s]
Leave == installer' = AtDoor

\* Where a step of the transaction goes when its command fails: back to the
\* contents that were there before, if the step belongs to the installation;
\* a restore that fails leaves the backup for the next run.
StepFails == IF installer.at \in Restoring THEN Leave ELSE InstallerTo("restorePersistent")

\* A command: it works, or fails with or without its effect.
Command(from, effect, none, to) ==
    /\ installer.at = from
    /\ \/ effect /\ SSFine /\ InstallerTo(to)
       \/ (effect \/ none) /\ SSFault /\ StepFails

-----------------------------------------------------------------------------
\* recoverInterruptedTransaction.
recoverInterruptedTransaction ==
    /\ installer.at = "idle"
    /\ \E d \in Fragments :
          installer' = [AtDoor EXCEPT !.desired = d, !.recovering = TRUE,
             !.previous = IF backup.phase = "prepared" THEN backup.previous ELSE @,
             !.at = CASE backup.phase = "none" -> "snapshot"
                      [] backup.phase = "prepared" -> "restorePersistent"
                      [] backup.phase = "committed" -> "closeCommitted"]
    /\ SSFine /\ UNCHANGED <<files, backup>>

\* The files of a committed transaction must be the desired ones.
CloseCommitted ==
    /\ installer.at = "closeCommitted"
    /\ \/ persistent = backup.desired /\ staged = backup.desired
          /\ backup' = NoBackup /\ SSFine /\ InstallerTo("snapshot")
       \/ (backup' = NoBackup \/ UNCHANGED backup) /\ SSFault /\ Leave
    /\ UNCHANGED files

\* readOwnedSnapshot of both files, then the prepared backup.
PrepareBackup ==
    /\ installer.at = "snapshot"
    /\ \/ /\ persistent = staged /\ SSFine
          /\ backup' = [phase |-> "prepared", previous |-> persistent, desired |-> installer.desired]
          /\ installer' = [installer EXCEPT !.at = "write", !.previous = persistent,
                                            !.recovering = FALSE]
       \/ /\ SSFault /\ Leave
          /\ \/ persistent = staged
                /\ backup' = [phase |-> "prepared", previous |-> persistent,
                              desired |-> installer.desired]
             \/ UNCHANGED backup
    /\ UNCHANGED files

WriteFragment ==
    /\ Command("write", persistent' = installer.desired, persistent' = persistent, "stage")
    /\ UNCHANGED <<staged, unbound, backup>>

StageFragment ==
    /\ Command("stage", staged' = persistent, staged' = staged, "activate")
    /\ UNCHANGED <<persistent, unbound, backup>>

\* CheckUnbound and ReconfigureUnbound.
ActivateFragment ==
    /\ Command("activate", unbound' = staged, unbound' = unbound, "commit")
    /\ UNCHANGED <<persistent, staged, backup>>

\* Mutant: a commit whose outcome cannot be read is rolled back.
RollbackOnUnknown(seen) == IF seen = "committed" THEN "close" ELSE "restorePersistent"
\* What to do after the write of the committed backup failed, by what is read.
CommitOutcome(seen) ==
    CASE seen = "prepared" -> "restorePersistent"
      [] seen = "committed" -> "close"
      [] seen = "unreadable" -> "idle"

\* Both files are verified first; if that fails nothing is committed.
CommitBackup ==
    /\ installer.at = "commit"
    /\ \/ SSFine /\ backup' = [backup EXCEPT !.phase = "committed"] /\ InstallerTo("close")
       \/ /\ SSFault
          /\ \E phase \in {"prepared", "committed"} : backup' = [backup EXCEPT !.phase = phase]
          /\ \E seen \in {backup'.phase, "unreadable"} :
                IF CommitOutcome(seen) = "idle" THEN Leave ELSE InstallerTo(CommitOutcome(seen))
    /\ UNCHANGED files

CloseBackup ==
    /\ installer.at = "close"
    /\ \/ backup' = NoBackup /\ SSFine
       \/ (backup' = NoBackup \/ UNCHANGED backup) /\ SSFault
    /\ Leave /\ UNCHANGED files

-----------------------------------------------------------------------------
\* restoreSnapshot, for a rollback and for a recovery.
RestorePersistent ==
    /\ Command("restorePersistent", persistent' = installer.previous, persistent' = persistent,
               "restoreStaged")
    /\ UNCHANGED <<staged, unbound, backup>>

RestoreStaged ==
    /\ Command("restoreStaged", staged' = installer.previous, staged' = staged, "restoreActivate")
    /\ UNCHANGED <<persistent, unbound, backup>>

RestoreActivate ==
    /\ Command("restoreActivate", unbound' = staged, unbound' = unbound, "restoreDone")
    /\ UNCHANGED <<persistent, staged, backup>>

\* Verified, then the backup goes.  A recovery goes on to install.
RestoreDone ==
    /\ installer.at = "restoreDone"
    /\ \/ /\ persistent = installer.previous /\ staged = installer.previous
          /\ backup' = NoBackup /\ SSFine
          /\ IF installer.recovering THEN InstallerTo("snapshot") ELSE Leave
       \/ (backup' = NoBackup \/ UNCHANGED backup) /\ SSFault /\ Leave
    /\ UNCHANGED files

-----------------------------------------------------------------------------
InstallerDies ==
    /\ installer.at # "idle" /\ SSFault /\ Leave
    /\ UNCHANGED <<files, backup>>

\* The persistent configuration is staged and loaded anew.
FirewallReboots ==
    /\ SSFault /\ staged' = persistent /\ unbound' = persistent
    /\ UNCHANGED <<persistent, backup, installer>>

SSNext ==
    \/ recoverInterruptedTransaction \/ CloseCommitted \/ PrepareBackup
    \/ WriteFragment \/ StageFragment \/ ActivateFragment \/ CommitBackup \/ CloseBackup
    \/ RestorePersistent \/ RestoreStaged \/ RestoreActivate \/ RestoreDone
    \/ InstallerDies \/ FirewallReboots

\* The installation is all or nothing: with no backup both files and the
\* running server agree, with a committed one all three have the new fragment,
\* and a half-done installation always has a prepared backup to go back from,
\* whichever command failed or did its work without an answer
\* (sourceScopedSafeSearchManager.configure, restoreSnapshot).
SafeSearchAtomic ==
    /\ backup.phase = "none" => persistent = staged /\ staged = unbound
    /\ backup.phase = "committed" =>
          persistent = backup.desired /\ staged = backup.desired /\ unbound = backup.desired

-----------------------------------------------------------------------------
\* The installer by itself, and the inductive invariant of the proofs.
SSSpec == SSInit /\ [][SSNext]_ssVars

\* The log is what the installer believes it to be.
LogMatches ==
    /\ installer.at = "snapshot" => backup.phase = "none"
    /\ installer.at \in {"closeCommitted", "close"} => backup.phase = "committed"
    /\ installer.at \in Installing \cup Restoring =>
          backup.phase = "prepared" /\ backup.previous = installer.previous
    /\ installer.at \in Installing => backup.desired = installer.desired

\* How far the files have come, in either direction.  A reboot may only bring
\* the copies closer to the persistent file, which is written first.
FilesFollow ==
    /\ installer.at \in {"stage", "activate", "commit"} => persistent = installer.desired
    /\ installer.at \in {"activate", "commit"} => staged = installer.desired
    /\ installer.at = "commit" => unbound = installer.desired
    /\ installer.at \in {"restoreStaged", "restoreActivate", "restoreDone"} =>
          persistent = installer.previous
    /\ installer.at \in {"restoreActivate", "restoreDone"} => staged = installer.previous
    /\ installer.at = "restoreDone" => unbound = installer.previous

SSInv == SSTypeOK /\ LogMatches /\ FilesFollow /\ SafeSearchAtomic
=============================================================================
