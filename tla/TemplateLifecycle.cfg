SPECIFICATION Spec
CONSTANTS
    VMs = {v1, v2}
    Jobs = {1, 2, 3}
    Admins = {a1}
    Sources = {"clone_skip", "iso_manual"}
    MaxRetries = 1
    NoVM = NoVM
INVARIANTS
    NoStuckTemplate
    BaseImageKept
    PublishedIsProven
    SmokeCloneOwned
PROPERTY SweepSparesLive
SYMMETRY Symmetry
VIEW Observed
CONSTRAINT NoRace
CHECK_DEADLOCK FALSE
