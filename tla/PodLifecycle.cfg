SPECIFICATION Spec
CONSTANTS
    Pods = {p1}
    Vlans = {v1}
    Tokens = {t1, t2}
    None = None
    VMJobTypes = {"vm_op", "vm_destroy"}
    MaxSweeps = 1
SYMMETRY Symmetry
VIEW Observed
INVARIANTS
    VLANFollowsPod
    TeardownMeetsNoLivePod
    NoGhostPod
    DestroyExcludesMutators
CONSTRAINT SweepOrVMJob
CHECK_DEADLOCK FALSE
