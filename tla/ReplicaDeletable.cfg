SPECIFICATION Spec
CONSTANTS
    Builds = {1}
    Computes = {c0, c1}
    None = None
    Facts = {"exact"}
    MaxRetries = 0
    MaxRestarts = 0
    Accepted = {}
INVARIANT DeletableIsAbsent
CHECK_DEADLOCK FALSE
