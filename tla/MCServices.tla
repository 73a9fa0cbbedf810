----------------------------- MODULE MCServices -----------------------------
(* Five services of the platform that share no state, side by side: image     *)
(* imports, the health checks of templates, the port groups on the ESXi       *)
(* hosts, the pod's network on OPNsense, and the SafeSearch view.  Each       *)
(* behaviour is one of one service, the others stay as they start.            *)
EXTENDS ImageImport, TemplateHealth, PortGroups, PodNetwork, SafeSearch

VARIABLE service

ServicesInit ==
    /\ service \in {"image", "health", "portgroups", "opnsense", "safesearch"}
    /\ ImageInit /\ HealthInit /\ PGInit /\ NetInit /\ SSInit
    /\ service # "image" => kind = "iso"
    /\ service # "portgroups" => predating = {} /\ claim = "w1"
    /\ service # "opnsense" => podStatus = "provisioning"
    /\ service # "safesearch" => persistent = 0

ImageStep ==
    service = "image" /\ ImageNext /\ UNCHANGED <<service, healthVars, pgVars, netVars, ssVars>>
HealthStep ==
    service = "health" /\ HealthNext /\ UNCHANGED <<service, imageVars, pgVars, netVars, ssVars>>
PGStep ==
    service = "portgroups" /\ PGNext /\ UNCHANGED <<service, imageVars, healthVars, netVars, ssVars>>
NetStep ==
    service = "opnsense" /\ NetNext /\ UNCHANGED <<service, imageVars, healthVars, pgVars, ssVars>>
SSStep ==
    service = "safesearch" /\ SSNext /\ UNCHANGED <<service, imageVars, healthVars, pgVars, netVars>>

servicesVars == <<service, imageVars, healthVars, pgVars, netVars, ssVars>>

\* The tickers go on, a worker that holds a job carries on with it, and a
\* reconciler's pass goes on.
ServicesSpec ==
    /\ ServicesInit
    /\ [][ImageStep \/ HealthStep \/ PGStep \/ NetStep \/ SSStep]_servicesVars
    /\ WF_imageVars(service = "image" /\ ReconcileImages)
    /\ WF_imageVars(service = "image" /\ RowAges)
    /\ \A j \in Imports : /\ WF_imageVars(service = "image" /\ RunImport(j))
                          /\ WF_imageVars(service = "image" /\ ImageImportRetryBudget(j))
    /\ WF_healthVars(service = "health" /\ RepairConfirmations)
    /\ \A t \in Tokens : WF_healthVars(service = "health" /\ RunConfirmation(t))
    /\ WF_netVars(service = "opnsense" /\ ReconcileNetwork)
=============================================================================
