CONSTANTS
    create = create
    destroy = destroy
    template = template
    image = image
    replica = replica
    Jobs = {create}
    Tokens = {t1, t2}
    None = None
    MaxRetries = 1
    Type <- MCType
SPECIFICATION FairSpec
PROPERTIES
    NoJobHeldForever
    CleanupIsServed
