----------------------------- MODULE PodNetwork -----------------------------
(***************************************************************************)
(* The network of one pod on OPNsense: the VLAN, the OPT interface bound to *)
(* it, the DHCP subnet, Kea's binding to the interface, and the pass rule   *)
(* of the firewall.  Three parties write it: the create job, the destroy    *)
(* job, and the network reconciler, which reads the allocations and the     *)
(* rules first and then repairs what is missing, all without a lock.        *)
(*                                                                         *)
(* Rules live in the configuration and take effect when they are applied.   *)
(* The configuration also drifts: interfaces are renumbered, and Kea's list *)
(* of interfaces, which every pod reads and writes back as a whole, can     *)
(* lose an entry to another pod's write.                                    *)
(*                                                                         *)
(* Left out: rules that look generated but are not exactly so (the code     *)
(* refuses to touch anything then), the limits on the number of rules, the  *)
(* port group (PortGroups), the recovery of a create job whose worker died, *)
(* and a destroy that overlaps the create (both PodLifecycle).              *)
(***************************************************************************)
EXTENDS Naturals

CONSTANTS
    OptIfs,      \* numbers of the OPT interfaces
    RuleIds,     \* UUIDs of firewall rules
    HandWritten, \* interfaces that have an equivalent rule written by hand
    MaxNetFaults \* bound: failed calls, dead passes and drift of the configuration

ASSUME OptIfsPositive == OptIfs \subseteq Nat \ {0} /\ HandWritten \subseteq OptIfs
ASSUME MaxNetFaultsNat == MaxNetFaults \in Nat

VARIABLES
    podStatus,  \* pods.status
    allocated,  \* vlan_pool has a row of the pod
    vlanUp, optIf, dhcpSubnet, keaIfs,  \* optIf = 0: no interface of the VLAN
    fwRules,    \* generated pass rules of the pod's subnet: <<uuid, interface>>
    pf,         \* interfaces that the running firewall passes
    builder,    \* the create or destroy job
    pass,       \* the reconciler's pass
    netFaults

config == <<vlanUp, optIf, dhcpSubnet, keaIfs, fwRules, pf>>
netVars == <<podStatus, allocated, config, builder, pass, netFaults>>

Fault == netFaults < MaxNetFaults /\ netFaults' = netFaults + 1
NoFault == UNCHANGED netFaults

NetTypeOK ==
    /\ podStatus \in {"provisioning", "running", "error", "destroying", "destroy_failed", "destroyed"}
    /\ optIf \in OptIfs \cup {0} /\ {keaIfs, pf} \subseteq SUBSET OptIfs
    /\ fwRules \subseteq RuleIds \X OptIfs
    /\ {allocated, vlanUp, dhcpSubnet} \subseteq BOOLEAN
    /\ netFaults \in 0 .. MaxNetFaults

IdleBuilder == [at |-> "idle", opt |-> 0, copy |-> {}, made |-> {}, ruleMade |-> {}, failed |-> FALSE]
IdlePass == [at |-> "idle", row |-> "none", copy |-> {}, listed |-> FALSE,
             complete |-> TRUE, opt |-> 0, apply |-> FALSE]

\* A pod that is created, or the row of a destroyed pod that still has its
\* VLAN, with a rule of it left.
NetInit ==
    /\ \/ podStatus = "provisioning" /\ fwRules = {} /\ builder = [IdleBuilder EXCEPT !.at = "vlan"]
       \/ podStatus = "destroyed" /\ builder = IdleBuilder
          /\ \E r \in RuleIds \X OptIfs : fwRules = {r} /\ \A d \in RuleIds : r[1] <= d
    /\ allocated = TRUE /\ vlanUp = FALSE /\ optIf = 0 /\ dhcpSubnet = FALSE /\ keaIfs = {}
    /\ pf = HandWritten \cup {r[2] : r \in fwRules}
    /\ pass = IdlePass /\ netFaults = 0

-----------------------------------------------------------------------------
\* OPNsense.

FindInterfaceByVLAN == IF vlanUp THEN optIf ELSE 0

\* The VLAN must be there; its interface is taken again, else a free one.
findVLANDevice == vlanUp
resolveInterface(i) == optIf # 0 => i = optIf
assignInterfacePHP(i) == optIf' = i
AssignInterface(i) == findVLANDevice /\ resolveInterface(i) /\ assignInterfacePHP(i)

UnassignInterfaceByVLAN == optIf' = IF vlanUp THEN 0 ELSE optIf

\* GetVLANByTag, and a new VLAN if there is none.
CreateVLAN == vlanUp' = TRUE
\* A VLAN with an interface is kept, and the answer is not looked at.
DeleteVLAN == vlanUp' = (vlanUp /\ optIf # 0)

CreateDHCPSubnet == dhcpSubnet' = TRUE
DeleteDHCPSubnet == dhcpSubnet' = FALSE

\* Kea's list is read, changed and written back.
AddDHCPInterface(i) == keaIfs' = keaIfs \cup {i}
RemoveDHCPInterface(i) == keaIfs' = keaIfs \ {i}

GetFirewallRules == fwRules
ApplyFirewall(rules) == pf' = HandWritten \cup {r[2] : r \in rules}

\* A fresh UUID: one that no rule has and nobody remembers.
FreshIds == {d \in RuleIds : \A r \in fwRules \cup builder.copy \cup pass.copy : r[1] # d}
CreateFirewallRule(i) == <<CHOOSE d \in FreshIds : \A e \in FreshIds : d <= e, i>>

-----------------------------------------------------------------------------
\* reconcilePodFirewallRules: `want` is the interface whose rule is desired,
\* 0 for none.  A rule is recognised by its signature, the interface included.

Matching(copy, want) == {r \in copy : r[2] = want}

\* Duplicates: all but one, or all if a rule written by hand does the same.
Duplicates(copy, want) ==
    IF want \in HandWritten \/ Matching(copy, want) = {} THEN {Matching(copy, want)}
    ELSE {Matching(copy, want) \ {r} : r \in Matching(copy, want)}

\* Mutant: only generated rules are looked at.
MissingAmongGenerated(copy, want) == want # 0 /\ Matching(copy, want) = {}
Missing(copy, want) == want # 0 /\ want \notin HandWritten /\ Matching(copy, want) = {}

\* What a run deletes, then adds, worked out from a copy read before.
reconcilePodFirewallRules(copy, want, allowStale) ==
    LET stale == IF allowStale THEN copy \ Matching(copy, want) ELSE {}
        new == IF Missing(copy, want) THEN {CreateFirewallRule(want)} ELSE {}
    IN  {[del |-> stale \cup dup, new |-> new] : dup \in Duplicates(copy, want)}

After(plan) == (fwRules \ plan.del) \cup plan.new

-----------------------------------------------------------------------------
\* The create job (CreatePod, steps 2 to 4b).  `made`: the rollback records.

Step(s) == builder' = [builder EXCEPT !.at = s]

BuildVLAN ==
    /\ builder.at = "vlan" /\ CreateVLAN
    /\ builder' = [builder EXCEPT !.at = "iface", !.made = IF vlanUp THEN @ ELSE @ \cup {"vlan"}]
    /\ NoFault /\ UNCHANGED <<podStatus, allocated, optIf, dhcpSubnet, keaIfs, fwRules, pf, pass>>

BuildInterface ==
    /\ builder.at = "iface"
    /\ \E i \in OptIfs :
          /\ AssignInterface(i)
          /\ builder' = [builder EXCEPT !.at = "dhcp", !.opt = i, !.made = @ \cup {"iface"}]
    /\ NoFault /\ UNCHANGED <<podStatus, allocated, vlanUp, dhcpSubnet, keaIfs, fwRules, pf, pass>>

BuildDHCP ==
    /\ builder.at = "dhcp"
    /\ CreateDHCPSubnet /\ AddDHCPInterface(builder.opt)
    /\ builder' = [builder EXCEPT !.at = "rules", !.made = IF dhcpSubnet THEN @ ELSE @ \cup {"dhcp"}]
    /\ NoFault /\ UNCHANGED <<podStatus, allocated, vlanUp, optIf, fwRules, pf, pass>>

BuildListRules ==
    /\ builder.at = "rules"
    /\ builder' = [builder EXCEPT !.at = "ensure", !.copy = GetFirewallRules]
    /\ NoFault /\ UNCHANGED <<podStatus, allocated, config, pass>>

BeginPodCreateCleanup == podStatus' = "error"

\* The rules are applied whether or not one had to be made.  A create whose
\* answer is lost has no rollback record.
ensurePodFirewallRule ==
    /\ builder.at = "ensure"
    /\ \E plan \in reconcilePodFirewallRules(builder.copy, builder.opt, FALSE) :
          /\ fwRules' = After(plan)
          /\ \/ /\ ApplyFirewall(fwRules') /\ NoFault
                /\ podStatus' = "running" /\ builder' = IdleBuilder
             \/ /\ Fault /\ UNCHANGED pf /\ BeginPodCreateCleanup
                /\ \E known \in {plan.new, {}} :
                      builder' = [builder EXCEPT !.at = "undo", !.copy = {}, !.ruleMade = known]
    /\ UNCHANGED <<allocated, vlanUp, optIf, dhcpSubnet, keaIfs, pass>>

\* A call fails, or the VLAN the job made is not there any more.
CreateFails ==
    /\ builder.at \in {"vlan", "iface", "dhcp", "rules"}
    /\ (builder.at = "iface" /\ ~vlanUp /\ NoFault) \/ Fault
    /\ Step("undo") /\ BeginPodCreateCleanup
    /\ UNCHANGED <<allocated, config, pass>>

\* No receipt of a port group is left at these steps: the pod is over and its
\* VLAN goes back to the pool.
FinalizeNeverAppliedPodCreate == podStatus' = "destroyed" /\ allocated' = FALSE

\* rb.Rollback: the latest record first.  A step that fails is tried again.
RollbackNetwork ==
    /\ builder.at = "undo" /\ NoFault
    /\ LET last == CHOOSE s \in {"rule", "dhcp", "iface", "vlan", "end"} :
                      \/ s = "rule" /\ builder.ruleMade # {}
                      \/ builder.ruleMade = {} /\ s = "dhcp" /\ s \in builder.made
                      \/ builder.ruleMade = {} /\ s = "iface" /\ s \in builder.made
                         /\ "dhcp" \notin builder.made
                      \/ builder.ruleMade = {} /\ s = "vlan" /\ builder.made = {s}
                      \/ builder.ruleMade = {} /\ s = "end" /\ builder.made = {}
       IN  /\ builder' = IF last = "end" THEN IdleBuilder
                         ELSE [builder EXCEPT !.ruleMade = {}, !.made = @ \ {last}]
           /\ fwRules' = fwRules \ builder.ruleMade
           /\ pf' = IF last = "rule" THEN HandWritten \cup {r[2] : r \in fwRules'} ELSE pf
           /\ IF last = "dhcp" THEN DeleteDHCPSubnet ELSE UNCHANGED dhcpSubnet
           /\ IF last = "iface" THEN UnassignInterfaceByVLAN ELSE UNCHANGED optIf
           /\ IF last = "iface" THEN RemoveDHCPInterface(FindInterfaceByVLAN) ELSE UNCHANGED keaIfs
           /\ IF last = "vlan" THEN DeleteVLAN ELSE UNCHANGED vlanUp
           /\ IF last = "end" THEN FinalizeNeverAppliedPodCreate ELSE UNCHANGED <<podStatus, allocated>>
    /\ UNCHANGED pass

-----------------------------------------------------------------------------
\* The destroy job (DestroyPod, steps 4 to 8).

StartDestroy ==
    /\ builder.at = "idle" /\ podStatus \in {"running", "error", "destroy_failed"}
    /\ podStatus' = "destroying" /\ Step("dhcp_delete")
    /\ NoFault /\ UNCHANGED <<allocated, config, pass>>

failPodDestroy == podStatus' = "destroy_failed" /\ builder' = IdleBuilder

DestroyDHCP ==
    /\ builder.at = "dhcp_delete"
    /\ \/ /\ DeleteDHCPSubnet /\ NoFault /\ Step("firewall_delete")
       \/ /\ dhcpSubnet /\ Fault /\ UNCHANGED dhcpSubnet
          /\ builder' = [builder EXCEPT !.at = "firewall_delete", !.failed = TRUE]
    /\ UNCHANGED <<podStatus, allocated, vlanUp, optIf, keaIfs, fwRules, pf, pass>>

\* The rules are read; the interface stays until they are gone.
DestroyFindRules ==
    /\ builder.at = "firewall_delete"
    /\ \/ /\ NoFault /\ UNCHANGED podStatus
          /\ builder' = [builder EXCEPT !.opt = FindInterfaceByVLAN,
                                        !.copy = IF FindInterfaceByVLAN = 0 THEN {} ELSE GetFirewallRules,
                                        !.at = IF FindInterfaceByVLAN = 0 THEN "interface_delete"
                                               ELSE "rules_delete"]
       \/ Fault /\ failPodDestroy
    /\ UNCHANGED <<allocated, config, pass>>

deletePodFirewallRules ==
    /\ builder.at = "rules_delete"
    /\ fwRules' = fwRules \ Matching(builder.copy, builder.opt)
    /\ \/ ApplyFirewall(fwRules') /\ NoFault /\ UNCHANGED podStatus
          /\ builder' = [builder EXCEPT !.at = "interface_delete", !.opt = 0, !.copy = {}]
       \/ Fault /\ failPodDestroy /\ UNCHANGED pf
    /\ UNCHANGED <<allocated, vlanUp, optIf, dhcpSubnet, keaIfs, pass>>

\* A failure to take the interface out of Kea's list is ignored.
DestroyInterface ==
    /\ builder.at = "interface_delete"
    /\ \/ /\ UnassignInterfaceByVLAN /\ NoFault /\ Step("vlan_delete")
          /\ RemoveDHCPInterface(FindInterfaceByVLAN) \/ UNCHANGED keaIfs
       \/ /\ Fault /\ UNCHANGED <<optIf, keaIfs>>
          /\ builder' = [builder EXCEPT !.at = "vlan_delete", !.failed = TRUE]
    /\ UNCHANGED <<podStatus, allocated, vlanUp, dhcpSubnet, fwRules, pf, pass>>

DestroyVLAN ==
    /\ builder.at = "vlan_delete"
    /\ \/ DeleteVLAN /\ NoFault /\ Step("finalize")
       \/ /\ vlanUp /\ Fault /\ UNCHANGED vlanUp
          /\ builder' = [builder EXCEPT !.at = "finalize", !.failed = TRUE]
    /\ UNCHANGED <<podStatus, allocated, optIf, dhcpSubnet, keaIfs, fwRules, pf, pass>>

FinalizePodDestroy ==
    /\ builder.at = "finalize"
    /\ \/ builder.failed /\ failPodDestroy /\ UNCHANGED allocated
       \/ ~builder.failed /\ podStatus' = "destroyed" /\ allocated' = FALSE /\ builder' = IdleBuilder
    /\ NoFault /\ UNCHANGED <<config, pass>>

-----------------------------------------------------------------------------
\* reconcileNetwork.  One pass: the allocations, the rules, the repairs of the
\* pod's network, the rules again, and the apply if this pass changed anything.

ListAllocatedVLANs ==
    /\ pass.at = "idle"
    /\ pass' = [IdlePass EXCEPT !.at = "rules", !.row = IF allocated THEN podStatus ELSE "none"]
    /\ NoFault /\ UNCHANGED <<podStatus, allocated, config, builder>>

\* Then the row of a destroyed pod is released, and a pod that is being
\* destroyed is left alone.
PassListRules ==
    /\ pass.at = "rules"
    /\ \E listed \in BOOLEAN :
          /\ IF listed THEN NoFault ELSE Fault
          /\ pass' = [pass EXCEPT !.listed = listed, !.copy = IF listed THEN GetFirewallRules ELSE {},
                                  !.at = IF pass.row \in {"provisioning", "running", "error"}
                                         THEN "vlan" ELSE "reconcile"]
    /\ allocated' = (allocated /\ pass.row # "destroyed")
    /\ UNCHANGED <<podStatus, config, builder>>

\* A failure up to the interface: the mapping of pods to interfaces is incomplete.
RepairVLAN ==
    /\ pass.at = "vlan"
    /\ CreateVLAN
    /\ \/ NoFault /\ pass' = [pass EXCEPT !.at = "iface"]
       \/ Fault /\ pass' = [pass EXCEPT !.at = "reconcile", !.complete = FALSE]
    /\ UNCHANGED <<podStatus, allocated, optIf, dhcpSubnet, keaIfs, fwRules, pf, builder>>

RepairInterface ==
    /\ pass.at = "iface"
    /\ \/ \E i \in OptIfs :
             /\ AssignInterface(i) /\ NoFault
             /\ pass' = [pass EXCEPT !.at = "dhcp", !.opt = i, !.apply = FindInterfaceByVLAN = 0]
       \/ /\ (~vlanUp /\ NoFault) \/ Fault
          /\ pass' = [pass EXCEPT !.at = "reconcile", !.complete = FALSE] /\ UNCHANGED optIf
    /\ UNCHANGED <<podStatus, allocated, vlanUp, dhcpSubnet, keaIfs, fwRules, pf, builder>>

RepairDHCP ==
    /\ pass.at = "dhcp"
    /\ \/ NoFault /\ CreateDHCPSubnet /\ AddDHCPInterface(pass.opt)
       \/ Fault /\ dhcpSubnet' \in {dhcpSubnet, TRUE} /\ UNCHANGED keaIfs
    /\ pass' = [pass EXCEPT !.at = "reconcile"]
    /\ UNCHANGED <<podStatus, allocated, vlanUp, optIf, fwRules, pf, builder>>

\* Nothing is done without a list.  The run stops at the first call that fails
\* and counts those before it; the failed call may have taken effect.
RepairFirewall ==
    /\ pass.at = "reconcile"
    /\ \/ ~pass.listed /\ NoFault /\ UNCHANGED fwRules /\ pass' = [pass EXCEPT !.at = "apply"]
       \/ /\ pass.listed
          /\ \E plan \in reconcilePodFirewallRules(pass.copy, pass.opt, pass.complete) :
                \/ /\ NoFault /\ fwRules' = After(plan)
                   /\ pass' = [pass EXCEPT !.at = "apply", !.copy = {},
                                           !.apply = @ \/ plan.del \cup plan.new # {}]
                \/ \E gone \in SUBSET plan.del, made \in SUBSET plan.new :
                      /\ plan.del \cup plan.new # {} /\ Fault
                      /\ made # {} => gone = plan.del
                      /\ fwRules' = (fwRules \ gone) \cup made
                      /\ \E failed \in SUBSET (gone \cup made) :
                            /\ \A r, q \in failed : r = q
                            /\ pass' = [pass EXCEPT !.at = "apply", !.copy = {},
                                                    !.apply = @ \/ (gone \cup made) \ failed # {}]
    /\ UNCHANGED <<podStatus, allocated, vlanUp, optIf, dhcpSubnet, keaIfs, pf, builder>>

\* The fault: the call fails, or the content filter is not healthy and the
\* apply is refused.
ApplyRepairs ==
    /\ pass.at = "apply"
    /\ \/ pass.apply /\ ApplyFirewall(fwRules) /\ NoFault
       \/ pass.apply /\ Fault /\ UNCHANGED pf
       \/ ~pass.apply /\ NoFault /\ UNCHANGED pf
    /\ pass' = IdlePass
    /\ UNCHANGED <<podStatus, allocated, vlanUp, optIf, dhcpSubnet, keaIfs, fwRules, builder>>

\* The pass loses its lease or its process.
PassDies ==
    /\ pass.at # "idle" /\ Fault /\ pass' = IdlePass
    /\ UNCHANGED <<podStatus, allocated, config, builder>>

ReconcileNetwork ==
    \/ ListAllocatedVLANs \/ PassListRules \/ RepairVLAN \/ RepairInterface \/ RepairDHCP
    \/ RepairFirewall \/ ApplyRepairs

-----------------------------------------------------------------------------
\* The interface is renumbered or its entry taken by another VLAN; another
\* pod writes back a list of Kea's interfaces that it read earlier.
ConfigurationDrifts ==
    /\ Fault
    /\ \/ optIf # 0 /\ optIf' \in (OptIfs \cup {0}) \ {optIf} /\ UNCHANGED keaIfs
       \/ keaIfs # {} /\ keaIfs' = {} /\ UNCHANGED optIf
    /\ UNCHANGED <<podStatus, allocated, vlanUp, dhcpSubnet, fwRules, pf, builder, pass>>

NetNext ==
    \/ BuildVLAN \/ BuildInterface \/ BuildDHCP \/ BuildListRules \/ ensurePodFirewallRule
    \/ CreateFails \/ RollbackNetwork
    \/ StartDestroy \/ DestroyDHCP \/ DestroyFindRules \/ deletePodFirewallRules
    \/ DestroyInterface \/ DestroyVLAN \/ FinalizePodDestroy
    \/ ReconcileNetwork \/ PassDies
    \/ ConfigurationDrifts

-----------------------------------------------------------------------------
Rules(i) == {r \in fwRules : r[2] = i}

\* Once the faults stop, the reconciler brings the configuration of a pod that
\* stays up to where it belongs: VLAN, interface, subnet and Kea's binding are
\* there, the interface the pod has NOW has one pass rule (or one written by
\* hand) and no other interface has one; a pod that is gone, destroyed or never
\* finished, has no rule and no VLAN of the pool, whatever a pass that had read
\* it before repaired meanwhile (reconcileNetwork, reconcilePodFirewallRules).
NetworkConverges ==
    <>[](/\ podStatus = "running" =>
               /\ vlanUp /\ optIf # 0 /\ dhcpSubnet /\ optIf \in keaIfs
               /\ \A i \in OptIfs :
                     IF i = optIf /\ i \notin HandWritten
                     THEN \E r \in fwRules : Rules(i) = {r} ELSE Rules(i) = {}
         /\ podStatus = "destroyed" => fwRules = {} /\ ~allocated)

\* firewall_rules.go, on a rule that is in the configuration already: "Apply
\* even when the model already matches. A prior add may have reached config.xml
\* while its apply call failed".  So a pod that stays up is one day passed by
\* the running firewall.  The reconciler applies only what it changed itself.
RepairedRuleApplied == <>[](podStatus = "running" => optIf \in pf)
=============================================================================
