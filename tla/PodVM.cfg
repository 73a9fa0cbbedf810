CONSTANTS
    MaxIdleFaults = 1
    SnapJobs = {1, 2}
    SnapWorkers = {"w1", "w2"}
    MaxSnapFaults = 1
SPECIFICATION PodVMSpec
INVARIANTS
    NewestKept
PROPERTIES
    IdleIsParked
    SpaceReclaimed
CHECK_DEADLOCK FALSE
