SPECIFICATION Spec
CONSTANTS
    Pods = {p1}
    Vlans = {v1}
    Tokens = {t1, t2}
    None = None
    VMJobTypes = {}
    MaxSweeps = 1
PROPERTY
    StaleTokenWritesNoStatus
CHECK_DEADLOCK FALSE
