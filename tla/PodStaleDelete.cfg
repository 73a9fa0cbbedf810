SPECIFICATION Spec
CONSTANTS
    Pods = {p1, p2}
    Vlans = {v1}
    Tokens = {t1, t2}
    None = None
    VMJobTypes = {}
    MaxSweeps = 0
SYMMETRY Symmetry
INVARIANT
    RecordedNetworkStays
CHECK_DEADLOCK FALSE
