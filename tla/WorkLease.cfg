CONSTANTS
    Runs = {r1, r2}
    None = None
    Duration <- LeaseDuration
    HeartbeatInterval <- Heartbeat
    WriteTimeout <- Timeout
    MaxGeneration = 4
SPECIFICATION FairSpec
INVARIANTS
    OverlapBounded
PROPERTIES
    ImplementsLease
    CancelledRunEnds
