----------------------------- MODULE PortGroups -----------------------------
(***************************************************************************)
(* The standard port groups of one pod: the durable receipt that says which *)
(* groups the pod owns, the create step that plans, authorises and applies  *)
(* them on every selected host, and the two clean-ups (the rollback of the  *)
(* create job and the destroy job) that may delete only what the receipt    *)
(* proves.                                                                  *)
(*                                                                         *)
(* A group's name comes from the pod's VLAN, so a group that is already     *)
(* there may be another pod's left-over or the operator's: the plan records *)
(* it as preexisting.  vSphere gives a group a new key whenever it is       *)
(* added.  Changes of the switches happen under one advisory lock; the      *)
(* clean-ups read the receipt before they take it.                          *)
(*                                                                         *)
(* Left out: host identities and security policies (a mismatch is an error  *)
(* like the others), legacy receipts, and a call to vCenter that takes      *)
(* effect after the caller's lock is gone.                                  *)
(***************************************************************************)
EXTENDS Naturals

CONSTANTS
    Switches,      \* the selected hosts, in the receipt's order
    CreateWorkers, \* workers that claim the pod_create job one after the other
    MaxKey,        \* bound: how often a group is added on a host
    MaxPGFaults    \* bound: lost claims, and groups removed behind our back

ASSUME SwitchesOrdered == Switches \subseteq Nat
ASSUME PGBounds == MaxKey \in Nat \ {0} /\ MaxPGFaults \in Nat

Destroyer == "destroyer"        \* the pod_destroy job
Actors == CreateWorkers \cup {Destroyer}
NoActor == "nobody"
ASSUME WorkersNamed == {Destroyer, NoActor} \cap CreateWorkers = {}

VARIABLES
    group,      \* the key of the group on each host, 0: there is none
    lastKey,    \* the last key vSphere gave out on each host
    predating,  \* hosts that had the group before the pod came
    receipt,    \* pod_portgroup_receipts: state, preexisting hosts, bound keys
    claim,      \* who holds the claim of the pod_create job, then the destroy job
    rollingBack,\* the create job is durably cleanup-only
    mutex,      \* WithVCenterPortGroupMutationLock
    actor,      \* where each worker is, and the receipt it read
    pgFaults

pgVars == <<group, lastKey, predating, receipt, claim, rollingBack, mutex, actor, pgFaults>>
switchVars == <<group, lastKey, predating>>
claimVars == <<claim, rollingBack, pgFaults>>

NoKeys == [h \in Switches |-> 0]

ReceiptStates == {"none", "planned", "applying", "active", "removed"}
Keys == [Switches -> 0 .. MaxKey]
Creating == {"plan", "begin", "apply"}               \* CreatePod, under the lock
Cleaning == {"undo", "close", "bind", "delete", "mark"}

PGTypeOK ==
    /\ group \in Keys /\ lastKey \in Keys /\ predating \subseteq Switches
    /\ receipt \in [state : ReceiptStates, preexisting : SUBSET Switches, keys : Keys]
    /\ claim \in Actors /\ mutex \in Actors \cup {NoActor}
    /\ actor \in [Actors -> [at : {"rest", "made"} \cup Creating \cup Cleaning,
                             todo : SUBSET Switches, created : SUBSET Switches,
                             seen : [state : ReceiptStates, keys : Keys]]]
    /\ rollingBack \in BOOLEAN /\ pgFaults \in 0 .. MaxPGFaults

AtRest == [at |-> "rest", todo |-> {}, created |-> {}, seen |-> [state |-> "none", keys |-> NoKeys]]

PGInit ==
    /\ predating \in SUBSET Switches
    /\ group = [h \in Switches |-> IF h \in predating THEN 1 ELSE 0]
    /\ lastKey = group
    /\ receipt = [state |-> "none", preexisting |-> {}, keys |-> NoKeys]
    /\ claim \in CreateWorkers /\ rollingBack = FALSE /\ mutex = NoActor
    /\ actor = [a \in Actors |-> AtRest]
    /\ pgFaults = 0

-----------------------------------------------------------------------------
\* The receipt.

GoTo(a, s) == actor' = [actor EXCEPT ![a].at = s]
PGLock(a) == mutex = NoActor /\ mutex' = a
PGUnlock(a) == mutex = a /\ mutex' = NoActor

Owned == Switches \ receipt.preexisting
Present(h) == group[h] # 0

\* Fenced by the claim; an identical retry changes nothing.
PersistPodPortGroupReceipt(a) ==
    /\ claim = a /\ receipt.state = "none"
    /\ receipt' = [receipt EXCEPT !.state = "planned",
                                  !.preexisting = {h \in Switches : Present(h)}]

\* Mutant: the authorisation is not made durable before the switches change.
BeginNotDurable(a) ==
    claim = a /\ receipt.state \in {"planned", "applying", "active"} /\ UNCHANGED receipt
BeginPodPortGroupMutation(a) ==
    /\ claim = a /\ receipt.state \in {"planned", "applying", "active"}
    /\ receipt' = [receipt EXCEPT !.state = IF @ = "planned" THEN "applying" ELSE @]

\* PortGroupReceiptWithKeys: the key an actor holds for a host.
KeyFor(a, h) == actor[a].seen.keys[h]

\* validatePortGroupReceipt and CapturePortGroupKeys: every group that is
\* there has the key the receipt knows, every owned group that is missing
\* was bound to one.
CapturePortGroupKeys(a) ==
    \A h \in Switches :
        /\ Present(h) => KeyFor(a, h) \in {0, group[h]}
        /\ ~Present(h) => h \in Owned /\ KeyFor(a, h) # 0

OwnedPortGroupsAbsent(a) ==
    /\ \A h \in receipt.preexisting : Present(h)
    /\ \A h \in Owned : ~Present(h)

\* A host's key is learned once and never changes.
PersistPodPortGroupKeys ==
    /\ receipt.state \in {"applying", "active"}
    /\ \A h \in Switches : Present(h) => receipt.keys[h] \in {0, group[h]}
    /\ receipt' = [receipt EXCEPT !.state = "active",
                                  !.keys = [h \in Switches |->
                                              IF Present(h) THEN group[h] ELSE @[h]]]

MarkPodPortGroupRemoved ==
    /\ receipt.state \in {"planned", "active", "removed"}
    /\ receipt' = [receipt EXCEPT !.state = "removed"]

MarkPodPortGroupAbsentRemoved ==
    /\ receipt.state = "applying" /\ receipt.keys = NoKeys
    /\ receipt' = [receipt EXCEPT !.state = "removed"]

GetPodPortGroupReceipt == [state |-> receipt.state, keys |-> receipt.keys]

-----------------------------------------------------------------------------
\* CreatePod, step 5, all of it under the lock.

\* The step fails: a worker that still has the claim makes the job
\* cleanup-only and rolls back, one that lost it stops.
FailCreate(a) ==
    /\ IF claim = a THEN rollingBack' = TRUE /\ GoTo(a, "undo")
       ELSE UNCHANGED rollingBack /\ actor' = [actor EXCEPT ![a] = AtRest]
    /\ UNCHANGED <<claim, pgFaults>>
FailPortGroups(a) == mutex' = NoActor /\ FailCreate(a)

StartPortGroups(a) ==
    /\ actor[a].at = "rest" /\ claim = a /\ a # Destroyer
    /\ IF rollingBack THEN GoTo(a, "undo") /\ UNCHANGED mutex
       ELSE /\ PGLock(a)
            /\ actor' = [actor EXCEPT ![a] =
                  [AtRest EXCEPT !.at = "plan", !.seen = GetPodPortGroupReceipt]]
    /\ UNCHANGED <<switchVars, receipt, claimVars>>

\* PlanPortGroupMutationForHosts, when there is no receipt.
PlanPortGroups(a) ==
    /\ actor[a].at = "plan"
    /\ \/ actor[a].seen.state = "none" /\ PersistPodPortGroupReceipt(a)
          /\ GoTo(a, "begin") /\ UNCHANGED <<mutex, claimVars>>
       \/ actor[a].seen.state \notin {"none", "removed"}
          /\ GoTo(a, "begin") /\ UNCHANGED <<receipt, mutex, claimVars>>
       \/ FailPortGroups(a) /\ UNCHANGED receipt
    /\ UNCHANGED switchVars

BeginPortGroups(a) ==
    /\ actor[a].at = "begin"
    /\ \/ BeginPodPortGroupMutation(a)
          /\ actor' = [actor EXCEPT ![a].at = "apply", ![a].todo = Owned]
          /\ UNCHANGED <<mutex, claimVars>>
       \/ FailPortGroups(a) /\ UNCHANGED receipt
    /\ UNCHANGED switchVars

\* The next host of ApplyPortGroupMutation.  A group that is there already is
\* taken for one an earlier attempt added.
addPortGroup(a) ==
    /\ actor[a].at = "apply"
    /\ \E h \in actor[a].todo :
          /\ \A g \in actor[a].todo : h <= g
          /\ \/ Present(h) /\ UNCHANGED switchVars
             \/ /\ ~Present(h) /\ lastKey[h] < MaxKey
                /\ group' = [group EXCEPT ![h] = lastKey[h] + 1]
                /\ lastKey' = [lastKey EXCEPT ![h] = @ + 1] /\ UNCHANGED predating
          /\ actor' = [actor EXCEPT ![a].todo = @ \ {h}, ![a].created = @ \cup {h}]
    /\ UNCHANGED <<receipt, mutex, claimVars>>

\* The step fails, before the first call or at one host: the groups of this
\* attempt are taken away again, and taking one away may fail as well.
removeCreatedPortGroups(a) ==
    /\ actor[a].at = "apply" /\ actor[a].todo # {}
    /\ \E gone \in SUBSET actor[a].created :
          group' = [h \in Switches |-> IF h \in gone THEN 0 ELSE group[h]]
    /\ FailPortGroups(a)
    /\ UNCHANGED <<lastKey, predating, receipt>>

BindPortGroupKeys(a) ==
    /\ actor[a].at = "apply" /\ actor[a].todo = {}
    /\ \/ /\ CapturePortGroupKeys(a) /\ PersistPodPortGroupKeys
          /\ PGUnlock(a) /\ GoTo(a, "made") /\ UNCHANGED claimVars
       \/ FailPortGroups(a) /\ UNCHANGED receipt
    /\ UNCHANGED switchVars

\* The rest of CreatePod: it succeeds and the job ends, or it fails and the
\* port groups are undone.
FinishCreate(a) ==
    /\ actor[a].at = "made"
    /\ \/ /\ claim = a /\ claim' = Destroyer /\ actor' = [actor EXCEPT ![a] = AtRest]
          /\ UNCHANGED <<rollingBack, pgFaults>>
       \/ FailCreate(a)
    /\ UNCHANGED <<switchVars, receipt, mutex>>

-----------------------------------------------------------------------------
\* The undo of portgroup_create, and the port groups of DestroyPod.

CleanupStart(a) == IF a = Destroyer THEN "rest" ELSE "undo"

\* The clean-up is through, or it failed and is retried from the start.
EndCleanup(a) ==
    /\ actor' = [actor EXCEPT ![a] = AtRest]
    /\ claim' = IF claim = a THEN Destroyer ELSE claim
    /\ UNCHANGED <<rollingBack, pgFaults>>
RetryCleanup(a) == GoTo(a, CleanupStart(a)) /\ UNCHANGED claimVars

ReadReceipt(a) ==
    /\ actor[a].at = CleanupStart(a) /\ (a = Destroyer => claim = a)
    /\ actor' = [actor EXCEPT ![a].at = "close", ![a].seen = GetPodPortGroupReceipt]
    /\ UNCHANGED <<switchVars, receipt, claimVars, mutex>>

\* A planned receipt proves that nothing was authorised; no receipt, nothing
\* to remove.
ClosePlanned(a) ==
    /\ actor[a].at = "close"
    /\ \/ actor[a].seen.state \in {"none", "removed"} /\ EndCleanup(a) /\ UNCHANGED receipt
       \/ actor[a].seen.state = "planned" /\ MarkPodPortGroupRemoved /\ EndCleanup(a)
    /\ UNCHANGED <<switchVars, mutex>>

\* One step under the lock: it is verified that no owned group is there.
closeAbsentApplyingReceipt(a) ==
    /\ actor[a].at = "close" /\ mutex = NoActor
    /\ actor[a].seen.state \in {"applying", "active"}
    /\ LET unbound == actor[a].seen.state = "applying" /\ actor[a].seen.keys = NoKeys
       IN  \/ /\ unbound /\ OwnedPortGroupsAbsent(a)
              /\ MarkPodPortGroupAbsentRemoved /\ EndCleanup(a)
           \/ /\ ~unbound \/ ~OwnedPortGroupsAbsent(a)
              /\ GoTo(a, "bind") /\ UNCHANGED <<receipt, claimVars>>
           \/ RetryCleanup(a) /\ UNCHANGED receipt
    /\ UNCHANGED <<switchVars, mutex>>

\* The keys are captured and bound outside the lock.
BindForDelete(a) ==
    /\ actor[a].at = "bind"
    /\ \/ /\ CapturePortGroupKeys(a) /\ PersistPodPortGroupKeys
          /\ actor' = [actor EXCEPT ![a].at = "delete", ![a].seen.keys =
                [h \in Switches |-> IF Present(h) THEN group[h] ELSE @[h]]]
          /\ UNCHANGED claimVars
       \/ RetryCleanup(a) /\ UNCHANGED receipt
    /\ UNCHANGED <<switchVars, mutex>>

DeletablePortGroups == {h \in Owned : Present(h)}

\* Every group is validated first, then each owned one is removed, or not.
DeletePortGroupMutation(a) ==
    /\ actor[a].at = "delete" /\ mutex = NoActor
    /\ \E gone \in SUBSET DeletablePortGroups :
          /\ gone # {} => \A h \in Switches :
                (Present(h) => KeyFor(a, h) = group[h]) /\ (h \in Owned => KeyFor(a, h) # 0)
          /\ group' = [h \in Switches |-> IF h \in gone THEN 0 ELSE group[h]]
          /\ IF gone = DeletablePortGroups /\ \A h \in Owned : KeyFor(a, h) # 0
             THEN GoTo(a, "mark") /\ UNCHANGED claimVars ELSE RetryCleanup(a)
    /\ mutex' = IF a = Destroyer /\ actor'[a].at = "mark" THEN a ELSE mutex
    /\ UNCHANGED <<lastKey, predating, receipt>>

\* The destroy job marks the receipt under the lock it deleted under, the
\* rollback after it gave the lock up.
MarkRemoved(a) ==
    /\ actor[a].at = "mark"
    /\ \/ MarkPodPortGroupRemoved /\ EndCleanup(a)
       \/ RetryCleanup(a) /\ UNCHANGED receipt
    /\ mutex' = IF mutex = a THEN NoActor ELSE mutex
    /\ UNCHANGED switchVars

-----------------------------------------------------------------------------
\* The claim is lost to another worker: the old one dies and its lock with
\* it, or it goes on without knowing.
LoseCreateClaim(a) ==
    /\ claim = a /\ a # Destroyer
    /\ pgFaults < MaxPGFaults /\ pgFaults' = pgFaults + 1
    /\ \E b \in CreateWorkers \ {a} : actor[b].at = "rest" /\ claim' = b
    /\ \/ UNCHANGED <<actor, mutex>>
       \/ /\ actor' = [actor EXCEPT ![a] = AtRest]
          /\ mutex' = IF mutex = a THEN NoActor ELSE mutex
    /\ UNCHANGED <<switchVars, receipt, rollingBack>>

\* Somebody removes a group of the pod from a switch.
SwitchDrifts ==
    /\ pgFaults < MaxPGFaults /\ pgFaults' = pgFaults + 1
    /\ \E h \in Switches \ predating :
          Present(h) /\ group' = [group EXCEPT ![h] = 0]
    /\ UNCHANGED <<lastKey, predating, receipt, claim, rollingBack, mutex, actor>>

PGNext ==
    \/ \E a \in CreateWorkers :
          \/ StartPortGroups(a) \/ PlanPortGroups(a) \/ BeginPortGroups(a)
          \/ addPortGroup(a) \/ removeCreatedPortGroups(a) \/ BindPortGroupKeys(a)
          \/ FinishCreate(a) \/ LoseCreateClaim(a)
    \/ \E a \in Actors :
          \/ ReadReceipt(a) \/ ClosePlanned(a) \/ closeAbsentApplyingReceipt(a)
          \/ BindForDelete(a) \/ DeletePortGroupMutation(a) \/ MarkRemoved(a)
    \/ SwitchDrifts

\* A receipt that is closed tells the truth: no group the pod added is left on
\* any host and every group that was there before still is, although a create
\* attempt may have died between any two hosts, been undone half, or still be
\* at work without its claim.  The VLAN is given to another pod on this word
\* (MarkPodPortGroupRemoved, MarkPodPortGroupAbsentRemoved).
RemovedLeavesNothing ==
    receipt.state = "removed" => \A h \in Switches : Present(h) <=> h \in predating

-----------------------------------------------------------------------------
\* The port groups by themselves, and the inductive invariant of the proofs.
PGSpec == PGInit /\ [][PGNext]_pgVars

\* The create job is over, or undoes what it did.
Closing == rollingBack \/ claim = Destroyer

\* Whoever changes the switches for CreatePod has the lock, and the job is not
\* closing; a worker that finishes a create it still owns is alone.
CreatorsExclusive ==
    \A a \in Actors :
        /\ actor[a].at \in Creating => mutex = a /\ ~Closing
        /\ actor[a].at = "made" /\ claim = a => \A b \in Actors : actor[b].at \notin Creating
        /\ actor[a].at \in Cleaning => Closing

\* The receipt tells the pod's own groups from those that were there, and
\* nothing is added before it authorises it or after it is closed.
ReceiptHonest ==
    /\ receipt.state # "none" => receipt.preexisting = predating
    /\ receipt.state = "removed" => Closing
    /\ \A h \in predating : Present(h)
    /\ receipt.state \in {"none", "planned", "removed"} => \A h \in Switches \ predating : ~Present(h)

\* What an actor believes about the switches and the receipt.
ActorsInformed ==
    \A a \in Actors :
        /\ actor[a].at \in Creating => actor[a].created \subseteq Switches \ predating
        /\ actor[a].at = "apply" => /\ receipt.state \in {"applying", "active"}
                                    /\ actor[a].todo \subseteq Switches \ predating
        /\ actor[a].at = "close" /\ actor[a].seen.state = "planned" =>
              receipt.state \in {"planned", "removed"}
        /\ actor[a].at = "delete" => receipt.state # "none"
        /\ actor[a].at = "mark" => \A h \in Switches \ predating : ~Present(h)

PGInv == PGTypeOK /\ CreatorsExclusive /\ ReceiptHonest /\ ActorsInformed
=============================================================================
