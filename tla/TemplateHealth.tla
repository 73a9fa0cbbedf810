--------------------------- MODULE TemplateHealth ---------------------------
(***************************************************************************)
(* The health of one template: the check cycles of the elected leader, the  *)
(* confirmation jobs the ordinary workers run, and the ticker that repairs  *)
(* a missing confirmation.                                                  *)
(*                                                                         *)
(* The row is written by compare-and-swap on updated_at in a cycle, and by  *)
(* updates gated on the pending failure's time stamp, here a token, in a    *)
(* confirmation.  A leader that lost its election may still be in a cycle.  *)
(* A template is unhealthy after two failures of one kind; a deep check     *)
(* clones and boots the template, so its second opinion is a job of its     *)
(* own.                                                                     *)
(*                                                                         *)
(* Left out: durations, messages, fault classes and metrics; the order in   *)
(* which templates are deep-checked; the sweep of old check clones.         *)
(***************************************************************************)
EXTENDS Naturals

CONSTANTS
    Checkers,   \* processes that run a cycle, the leader and former leaders
    MaxToken,   \* bound: pending deep failures
    MaxOutages  \* bound: confirmations that vCenter's state or a crash cut short

ASSUME HealthBounds == MaxToken \in Nat /\ MaxOutages \in Nat

VARIABLES
    visible,    \* the template is one students see
    health,     \* template_health_state
    tokens,     \* the last token given out
    cycle,      \* where each checker is and the copy of the row it read
    confirm,    \* the confirmation job of each token
    repair,     \* the token the ticker is about to schedule, 0: none
    outages,
    streak      \* deep failures recorded since the last recorded deep pass, at most 2

healthVars == <<visible, health, tokens, cycle, confirm, repair, outages, streak>>

Tokens == 1 .. MaxToken
Verdict == {"nil", "pass", "fail"}
HealthRow == [structural : 0 .. 2, deep : 0 .. 2, lastStructural : Verdict, lastDeep : Verdict,
              pending : 0 .. MaxToken, status : {"unknown", "healthy", "unhealthy"}]

HealthTypeOK ==
    /\ visible \in BOOLEAN /\ health \in HealthRow /\ tokens \in 0 .. MaxToken
    /\ cycle \in [Checkers -> [at : {"idle", "structural", "between", "deep", "ensure"},
                               verdict : Verdict, read : HealthRow, stale : BOOLEAN]]
    /\ confirm \in [Tokens -> {"none", "pending", "checking", "completed", "failed"}]
    /\ repair \in 0 .. MaxToken /\ outages \in 0 .. MaxOutages /\ streak \in 0 .. 2

Unchecked == [structural |-> 0, deep |-> 0, lastStructural |-> "nil", lastDeep |-> "nil",
              pending |-> 0, status |-> "unknown"]
NoCycle == [at |-> "idle", verdict |-> "nil", read |-> Unchecked, stale |-> FALSE]

HealthInit ==
    /\ visible = TRUE /\ health = Unchecked /\ tokens = 0
    /\ cycle = [c \in Checkers |-> NoCycle]
    /\ confirm = [t \in Tokens |-> "none"]
    /\ repair = 0 /\ outages = 0 /\ streak = 0

-----------------------------------------------------------------------------
\* The row.

refreshTemplateHealthAggregate(r) ==
    [r EXCEPT !.status =
        CASE r.structural >= 2 \/ r.deep >= 2 -> "unhealthy"
          [] r.structural < 2 /\ r.deep < 2 /\ "pass" \in {r.lastStructural, r.lastDeep} -> "healthy"
          [] OTHER -> @]

\* Whoever read the row before this write has an old version.
Outdate(cs) ==
    [c \in Checkers |-> [cs[c] EXCEPT !.stale = cs[c].at \in {"structural", "deep"}]]

\* Mutant: a full-row upsert that looks at no version.
UpsertTemplateHealthState(c, new) == health' = new
CompareAndSwapTemplateHealthState(c, new) == ~cycle[c].stale /\ health' = new

\* The attempt whose write succeeds.
mutateTemplateHealthState(c, new, next) ==
    /\ CompareAndSwapTemplateHealthState(c, refreshTemplateHealthAggregate(new))
    /\ cycle' = [Outdate(cycle) EXCEPT ![c] = next]

\* An attempt that met a newer version reads the row again, or was the last
\* one and the cycle ends.
RetryMutate(c) ==
    /\ cycle[c].stale
    /\ \/ cycle' = [cycle EXCEPT ![c].read = health, ![c].stale = FALSE]
       \/ cycle' = [cycle EXCEPT ![c] = NoCycle]
    /\ UNCHANGED <<visible, health, tokens, confirm, repair, outages, streak>>

\* One job per token; only a failed one is brought back.
\* Mutant: the insert does nothing when the job exists.
ConfirmationInsertOnly(t) ==
    confirm' = [confirm EXCEPT ![t] = IF @ = "none" THEN "pending" ELSE @]
CreateTemplateHealthConfirmationJob(t) ==
    confirm' = [confirm EXCEPT ![t] = IF @ \in {"none", "failed"} THEN "pending" ELSE @]

-----------------------------------------------------------------------------
\* A cycle.  One that cannot reach vCenter changes nothing and ends.

StructuralCheck(c) ==
    /\ cycle[c].at = "idle" /\ visible
    /\ \E v \in {"pass", "fail"} : cycle' = [cycle EXCEPT ![c] =
          [at |-> "structural", verdict |-> v, read |-> health, stale |-> FALSE]]
    /\ UNCHANGED <<visible, health, tokens, confirm, repair, outages, streak>>

RecordStructural(c) ==
    /\ cycle[c].at = "structural"
    /\ LET r == cycle[c].read
           pass == cycle[c].verdict = "pass"
           new == [r EXCEPT !.lastStructural = cycle[c].verdict,
                            !.structural = IF pass THEN 0 ELSE IF @ = 2 THEN 2 ELSE @ + 1]
       IN  mutateTemplateHealthState(c, new, [NoCycle EXCEPT !.at = "between"])
    /\ UNCHANGED <<visible, tokens, confirm, repair, outages, streak>>

\* GetLeastRecentlyDeepCheckedTemplate looks again for what students see.
runDeepCheck(c) ==
    /\ cycle[c].at = "between"
    /\ \/ visible /\ \E v \in {"pass", "fail"} : cycle' = [cycle EXCEPT ![c] =
             [at |-> "deep", verdict |-> v, read |-> health, stale |-> FALSE]]
       \/ ~visible /\ cycle' = [cycle EXCEPT ![c] = NoCycle]
    /\ UNCHANGED <<visible, health, tokens, confirm, repair, outages, streak>>

\* A failure that is not yet confirmed asks for a confirmation, once.
RecordDeep(c) ==
    /\ cycle[c].at = "deep"
    /\ LET r == cycle[c].read
           pass == cycle[c].verdict = "pass"
           asks == ~pass /\ r.deep < 2 /\ r.pending = 0
           new == [r EXCEPT !.lastDeep = cycle[c].verdict,
                            !.deep = IF pass THEN 0 ELSE IF @ < 2 THEN 1 ELSE @,
                            !.pending = IF pass THEN 0 ELSE IF asks THEN tokens + 1 ELSE @]
       IN  /\ asks => tokens < MaxToken
           /\ mutateTemplateHealthState(c, new,
                 IF new.pending = 0 THEN NoCycle
                 ELSE [NoCycle EXCEPT !.at = "ensure", !.read = new])
           /\ tokens' = IF asks THEN tokens + 1 ELSE tokens
           /\ streak' = IF pass THEN 0 ELSE IF streak = 2 THEN 2 ELSE streak + 1
    /\ UNCHANGED <<visible, confirm, repair, outages>>

ensureTemplateHealthConfirmation(c) ==
    /\ cycle[c].at = "ensure"
    /\ CreateTemplateHealthConfirmationJob(cycle[c].read.pending)
    /\ cycle' = [cycle EXCEPT ![c] = NoCycle]
    /\ UNCHANGED <<visible, health, tokens, repair, outages, streak>>

\* The checker dies, or vCenter or a write fails: the cycle ends here.
CycleEnds(c) ==
    /\ cycle[c].at # "idle" /\ cycle' = [cycle EXCEPT ![c] = NoCycle]
    /\ UNCHANGED <<visible, health, tokens, confirm, repair, outages, streak>>

-----------------------------------------------------------------------------
\* The ticker lists the states, then schedules what is pending.

reconcileTemplateHealthConfirmations ==
    /\ repair = 0 /\ visible /\ health.pending # 0
    /\ repair' = health.pending
    /\ UNCHANGED <<visible, health, tokens, cycle, confirm, outages, streak>>

RepairConfirmation ==
    /\ repair # 0 /\ repair' = 0
    /\ CreateTemplateHealthConfirmationJob(repair)
    /\ UNCHANGED <<visible, health, tokens, cycle, outages, streak>>

-----------------------------------------------------------------------------
\* The confirmation job.

ConfirmIs(t, s) == confirm' = [confirm EXCEPT ![t] = s]

ClearTemplateHealthDeepPending(t) ==
    health.pending = t /\ health' = [health EXCEPT !.pending = 0] /\ cycle' = Outdate(cycle)

\* A token that is no longer pending is a stale job; a template students do
\* not see any more is not checked.
confirmTemplateHealth(t) ==
    /\ confirm[t] = "pending"
    /\ \/ health.pending # t /\ ConfirmIs(t, "completed") /\ UNCHANGED <<health, cycle>>
       \/ /\ ~visible
          /\ ClearTemplateHealthDeepPending(t) /\ ConfirmIs(t, "completed")
       \/ /\ health.pending = t /\ visible
          /\ ConfirmIs(t, "checking") /\ UNCHANGED <<health, cycle>>
    /\ UNCHANGED <<visible, tokens, repair, outages, streak>>

\* The second opinion, or nothing when the failure was superseded.
ApplyTemplateHealthDeepConfirmation(t) ==
    /\ confirm[t] = "checking" /\ ConfirmIs(t, "completed")
    /\ \/ health.pending # t /\ UNCHANGED <<health, cycle, streak>>
       \/ /\ health.pending = t
          /\ \E pass \in BOOLEAN :
                /\ health' = [health EXCEPT
                      !.deep = IF pass THEN 0 ELSE 2, !.pending = 0,
                      !.lastDeep = IF pass THEN "pass" ELSE "fail",
                      !.status = IF ~pass \/ health.structural >= 2
                                 THEN "unhealthy" ELSE "healthy"]
                /\ streak' = IF pass THEN 0 ELSE IF streak = 2 THEN 2 ELSE streak + 1
          /\ cycle' = Outdate(cycle)
    /\ UNCHANGED <<visible, tokens, repair, outages>>

\* vCenter cannot be reached or the worker dies: the job is retried, or its
\* retries are used up.
ConfirmationFails(t) ==
    /\ confirm[t] = "checking" /\ outages < MaxOutages /\ outages' = outages + 1
    /\ ConfirmIs(t, "pending") \/ ConfirmIs(t, "failed")
    /\ UNCHANGED <<visible, health, tokens, cycle, repair, streak>>

\* The template is hidden or published.
ToggleVisible ==
    /\ visible' = ~visible
    /\ UNCHANGED <<health, tokens, cycle, confirm, repair, outages, streak>>

-----------------------------------------------------------------------------
RunConfirmation(t) == confirmTemplateHealth(t) \/ ApplyTemplateHealthDeepConfirmation(t)
RepairConfirmations == reconcileTemplateHealthConfirmations \/ RepairConfirmation

HealthNext ==
    \/ \E c \in Checkers :
          \/ StructuralCheck(c) \/ RecordStructural(c) \/ runDeepCheck(c) \/ RecordDeep(c)
          \/ RetryMutate(c) \/ ensureTemplateHealthConfirmation(c) \/ CycleEnds(c)
    \/ \E t \in Tokens : RunConfirmation(t) \/ ConfirmationFails(t)
    \/ RepairConfirmations \/ ToggleVisible

\* What the row says is what was seen: unhealthy stands for two structural
\* failures in a row or a deep failure that a second check confirmed, no deep
\* failure for a recorded pass since the last one.  Cycles, confirmations and
\* a former leader write the row in any order, from copies that are old
\* (CompareAndSwapTemplateHealthState, ApplyTemplateHealthDeepConfirmation).
HealthVerdictSound ==
    /\ health.status = "unhealthy" <=> health.structural = 2 \/ health.deep = 2
    /\ health.deep = 0 <=> streak = 0
    /\ health.deep = 2 => streak = 2

\* A deep failure does not stay unconfirmed: as long as students see the
\* template, a pending failure is confirmed, refuted or superseded, although
\* the job may never have been created, may have failed for good or may belong
\* to an older failure (ensureTemplateHealthConfirmation).
FailureSettles ==
    \A t \in Tokens : health.pending = t ~> (health.pending # t \/ ~visible)

-----------------------------------------------------------------------------
\* The health checks by themselves, and the inductive invariant of the proofs.
HealthSpec == HealthInit /\ [][HealthNext]_healthVars

\* A copy that is not outdated is the row.
FreshCopies ==
    \A c \in Checkers :
        cycle[c].at \in {"structural", "deep"} /\ ~cycle[c].stale => cycle[c].read = health

\* Only a first, unconfirmed deep failure waits for a second opinion.
PendingIsFirst == health.pending # 0 => health.deep = 1

HealthInv == HealthTypeOK /\ FreshCopies /\ PendingIsFirst /\ HealthVerdictSound
=============================================================================
