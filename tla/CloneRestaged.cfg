CONSTANTS
    Ops = {o1, o2}
    Tokens = {t1, t2}
    None = None
    MaxRetries = 1
SPECIFICATION Spec
SYMMETRY Symmetry
CHECK_DEADLOCK FALSE
INVARIANT
    StagedIsNotDestroyed
