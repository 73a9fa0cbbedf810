SPECIFICATION Spec
CONSTANTS
    VMs = {v1}
    Jobs = {1, 2, 3, 4}
    Admins = {a1}
    Sources = {"clone"}
    MaxRetries = 0
    NoVM = NoVM
INVARIANT OwnVerdict
VIEW Observed
CHECK_DEADLOCK FALSE
