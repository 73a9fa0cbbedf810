CONSTANTS
    MaxIdleFaults = 1
    SnapJobs = {1, 2}
    SnapWorkers = {"w1", "w2"}
    MaxSnapFaults = 1
SPECIFICATION PodVMSpec
PROPERTIES ConsoleSpares JobSpares RetentionSpares RevertsOnlyStopped
CHECK_DEADLOCK FALSE
