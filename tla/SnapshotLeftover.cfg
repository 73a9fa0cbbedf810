CONSTANTS
    MaxIdleFaults = 1
    SnapJobs = {1, 2}
    SnapWorkers = {"w1", "w2"}
    MaxSnapFaults = 1
SPECIFICATION PodVMSpec
PROPERTIES LeftoversRemoved
CHECK_DEADLOCK FALSE
