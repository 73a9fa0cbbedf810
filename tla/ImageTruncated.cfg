CONSTANTS
    Imports = {1, 2}
    MaxImageFaults = 1
    Checkers = {"c1", "c2"}
    MaxToken = 1
    MaxOutages = 1
    Switches = {1, 2}
    CreateWorkers = {"w1", "w2"}
    MaxKey = 2
    MaxPGFaults = 2
    OptIfs = {1, 2}
    RuleIds = {1, 2, 3, 4}
    HandWritten = {1}
    MaxNetFaults = 2
    Fragments = {1, 2}
    MaxSSFaults = 3
SPECIFICATION ServicesSpec
INVARIANT TruncatedNeverImported
CHECK_DEADLOCK FALSE
