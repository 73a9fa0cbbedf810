CONSTANTS
    pod = pod
    add = add
    old = old
    a = a
    b = b
    c = c
    r = r
    Hosts = {h1, h2}
    Jobs = {pod, add, old}
    VMs = {a, b, c, r}
    Plan <- MCPlan
    Resident = {r}
    Ram <- MCRam
    Memory = 3
    Reserve = 1
SPECIFICATION Spec
SYMMETRY MCSymmetry
INVARIANTS ReserveKept PlacedVMStays
PROPERTIES NoLegacyFallback
CHECK_DEADLOCK FALSE
