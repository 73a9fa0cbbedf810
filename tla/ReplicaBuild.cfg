SPECIFICATION Spec
CONSTANTS
    Builds = {1, 2}
    Computes = {c0, c1, c2}
    None = None
    Facts = {"exact", "linked"}
    MaxRetries = 1
    MaxRestarts = 1
    Accepted = {1}
INVARIANTS NeverResubmitted ReadyIsAccepted SourceLives
PROPERTIES CleanedOnProof
SYMMETRY Symmetry
CONSTRAINTS BuiltPlacements Chained
CHECK_DEADLOCK FALSE
