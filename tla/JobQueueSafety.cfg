CONSTANTS
    create = create
    destroy = destroy
    template = template
    image = image
    replica = replica
    Jobs = {create, destroy, template, image, replica}
    Tokens = {t1, t2, t3, t4}
    None = None
    MaxRetries = 2
    Type <- MCType
SYMMETRY TokenSymmetry
VIEW Observed
SPECIFICATION Spec
CONSTRAINT FewJobs
INVARIANTS
    ActiveIsRecoverable
PROPERTIES
    CleanupIntentKept
    OrdinaryRetriesBounded
    ImplementsQueue
